---- MODULE Spec2Model ----
(***************************************************************************)
(* A model of the waffledb time-series storage engine                      *)
(* (src/waffledb/src/waffledb.cpp, columnar_storage.cpp, wal.cpp).         *)
(*                                                                         *)
(* The engine state is the in-memory state of TimeSeriesDatabase::Impl     *)
(* (metrics_, activeChunks_, metricChunks_, writeBuffer_, the WAL sequence *)
(* counter) plus the database directory (wal.log, metadata.txt and the     *)
(* <metric>_<id>.chunk files), which survives the death of the process.    *)
(*                                                                         *)
(* Modelling conventions                                                   *)
(*  - double values are integers; a quotient of doubles is an exact        *)
(*    rational, kept as a reduced pair <<numerator, denominator>>;         *)
(*  - a metric name is the sequence of its '_'-separated parts, so that    *)
(*    "cpu" is <<"cpu">> and "cpu_user" is <<"cpu", "user">>;              *)
(*  - a tag map is a function from tag keys to tag values;                 *)
(*  - every written point carries a history field `id` (the number of the  *)
(*    write call that produced it).  No modelled code reads it; it only    *)
(*    lets properties tell two equal points apart.                         *)
(***************************************************************************)
EXTENDS Integers, Sequences, FiniteSets, TLC

(***************************************************************************)
(* Bounds of the model.                                                    *)
(***************************************************************************)
\* Total number of points written over a whole behaviour.
MaxWrites == 3

\* Rows per chunk.  The source sets VALUES_PER_CHUNK = 1000
\* (columnar_storage.h:14); the model scales it down so that chunks fill
\* and are sealed within MaxWrites writes.
VALUES_PER_CHUNK == 2

\* The timestamps clients use (uint64_t in the source).
Timestamps == {10, 20}

\* The initial minTimestamp_ of an empty chunk.  The source has UINT64_MAX
\* (2^64 - 1); the model takes the largest integer TLC represents, which
\* like UINT64_MAX lies above every timestamp in use.
UINT64_MAX == 2147483647

\* The values clients use.
Values == {1, 3}

\* std::numeric_limits<double>::max() and lowest(): the largest and the
\* smallest finite double.  The model takes a number above every other
\* value in use, and its negation.
DBL_MAX == 1000000
DBL_LOWEST == 0 - DBL_MAX

\* Values at the ends of the range of double.
ExtremeValues == {1, DBL_MAX, DBL_LOWEST}

CPU == <<"cpu">>
CPU_USER == <<"cpu", "user">>

\* The empty tag map.
NoTags == <<>>

HostA == [k \in {"host"} |-> "a"]
HostB == [k \in {"host"} |-> "b"]
RegionW == [k \in {"region"} |-> "w"]
HostARegionW == [k \in {"host", "region"} |-> IF k = "host" THEN "a" ELSE "w"]

\* The limits ColumnarChunk::deserialize puts on the tag map of a row: the
\* number of pairs, and the length of a key and of a value.
MaxTagCount == 100
MaxTagLength == 256

\* The limit WriteAheadLog::parseEntry puts on the length of a metric name
\* (its limits on tags are MaxTagCount and MaxTagLength too).
MaxMetricLength == 1024

\* The string s repeated n times.
RECURSIVE Repeat(_, _)
Repeat(s, n) ==
    IF n = 0 THEN ""
    ELSE LET half == Repeat(s, n \div 2)
         IN IF n % 2 = 0 THEN half \o half ELSE half \o half \o s

\* A tag map whose value is one character longer than MaxTagLength.
LongText == Repeat("x", MaxTagLength + 1)
HostLong == [k \in {"host"} |-> LongText]

\* Tag maps carried by written points, and tag maps used as query filters.
PointTagMaps == {NoTags, HostA, HostARegionW}
FilterTagMaps == {NoTags, HostA, HostB, RegionW, HostARegionW}

\* Query ranges [s, e] with s <= e, some of them reaching outside the
\* timestamps in use.
RangeBounds == {5, 10, 15, 20, 25}
Ranges == {r \in RangeBounds \X RangeBounds : r[1] <= r[2]}

(***************************************************************************)
(* Helpers on sequences.                                                   *)
(***************************************************************************)
Range(s) == {s[i] : i \in 1..Len(s)}

RECURSIVE SumSeq(_)
SumSeq(s) == IF s = <<>> THEN 0 ELSE Head(s) + SumSeq(Tail(s))

\* Number of positions of s holding x.
Occurrences(s, x) == Cardinality({i \in 1..Len(s) : s[i] = x})

RECURSIVE Gcd(_, _)
Gcd(a, b) == IF b = 0 THEN a ELSE Gcd(b, a % b)

\* The exact quotient num / den (den > 0, num >= 0) as a reduced fraction.
Quotient(num, den) ==
    LET g == Gcd(num, den) IN <<num \div g, den \div g>>

\* The double 0.0.
Zero == <<0, 1>>

(***************************************************************************)
(* ColumnarChunk (columnar_storage.cpp).                                   *)
(***************************************************************************)
\* ColumnarChunk::ColumnarChunk and the member initialisers.
EmptyChunk ==
    [timestamps_ |-> <<>>, values_ |-> <<>>, tags_ |-> <<>>, ids |-> <<>>,
     minTimestamp_ |-> UINT64_MAX, maxTimestamp_ |-> 0, count_ |-> 0]

\* A chunk that always claims to have room.
canAppend_always(c) == TRUE

\* ColumnarChunk::canAppend.
canAppend(c) == c.count_ < VALUES_PER_CHUNK

\* The test at the top of ColumnarChunk::append: on a full chunk it throws
\* std::runtime_error("Chunk is full") before it touches the chunk.
appendThrows(c) == c.count_ >= VALUES_PER_CHUNK

\* std::min and std::max.
Min_first(a, b) == a

Min(a, b) == IF a < b THEN a ELSE b
Max(a, b) == IF a > b THEN a ELSE b

\* ColumnarChunk::append, on a chunk that is not full (on a full chunk the
\* source throws before touching the chunk).
append(c, p) ==
    [timestamps_ |-> Append(c.timestamps_, p.timestamp),
     values_ |-> Append(c.values_, p.value),
     tags_ |-> Append(c.tags_, p.tags),
     ids |-> Append(c.ids, p.id),
     minTimestamp_ |-> IF c.count_ = 0 THEN p.timestamp
                       ELSE Min(c.minTimestamp_, p.timestamp),
     maxTimestamp_ |-> IF c.count_ = 0 THEN p.timestamp
                       ELSE Max(c.maxTimestamp_, p.timestamp),
     count_ |-> c.count_ + 1]

\* std::lower_bound over timestamps_[first, first + len): the halving
\* search, which does not require the range to be sorted to terminate.
\* Positions are 0-based as in the source; ts[k + 1] is the element at k.
RECURSIVE lower_bound(_, _, _, _)
lower_bound(ts, first, len, val) ==
    IF len <= 0 THEN first
    ELSE LET half == len \div 2
             mid == first + half
         IN IF ts[mid + 1] < val
            THEN lower_bound(ts, mid + 1, len - half - 1, val)
            ELSE lower_bound(ts, first, half, val)

\* std::upper_bound, likewise.
RECURSIVE upper_bound(_, _, _, _)
upper_bound(ts, first, len, val) ==
    IF len <= 0 THEN first
    ELSE LET half == len \div 2
             mid == first + half
         IN IF val < ts[mid + 1]
            THEN upper_bound(ts, first, half, val)
            ELSE upper_bound(ts, mid + 1, len - half - 1, val)

\* ColumnarChunk::queryTimeRange: the 0-based indices from the lower bound
\* of startTime up to the upper bound of endTime.  (For startTime <= endTime
\* the lower bound never lies behind the upper bound.)
queryTimeRange(c, startTime, endTime) ==
    LET startIt == lower_bound(c.timestamps_, 0, c.count_, startTime)
        endIt == upper_bound(c.timestamps_, 0, c.count_, endTime)
    IN [k \in 1..(endIt - startIt) |-> startIt + k - 1]

\* The tag test of ColumnarChunk::queryWithTags: every (key, value) of
\* queryTags is in the row's tag map.
TagsMatch(rowTags, queryTags) ==
    \A key \in DOMAIN queryTags :
        key \in DOMAIN rowTags /\ rowTags[key] = queryTags[key]

\* queryWithTags with the value comparison left out of the tag test.
queryWithTags_keyOnly(c, queryTags) ==
    SelectSeq([k \in 1..c.count_ |-> k - 1],
              LAMBDA i : DOMAIN queryTags \subseteq DOMAIN c.tags_[i + 1])

\* ColumnarChunk::queryWithTags: the 0-based indices of the matching rows,
\* ascending.
queryWithTags(c, queryTags) ==
    SelectSeq([k \in 1..c.count_ |-> k - 1],
              LAMBDA i : TagsMatch(c.tags_[i + 1], queryTags))

\* std::set_intersection of two ascending index sequences.
RECURSIVE set_intersection(_, _)
set_intersection(a, b) ==
    IF a = <<>> \/ b = <<>> THEN <<>>
    ELSE IF Head(a) < Head(b) THEN set_intersection(Tail(a), b)
    ELSE IF Head(b) < Head(a) THEN set_intersection(a, Tail(b))
    ELSE <<Head(a)>> \o set_intersection(Tail(a), Tail(b))

\* ColumnarChunk::sum: the values at the indices of queryTimeRange (the
\* AVX2 path adds the same values in another order).
ChunkSum(c, startTime, endTime) ==
    LET indices == queryTimeRange(c, startTime, endTime)
    IN SumSeq([k \in 1..Len(indices) |-> c.values_[indices[k] + 1]])

(***************************************************************************)
(* The state.                                                              *)
(***************************************************************************)
VARIABLES
    \* TimeSeriesDatabase::Impl, the memory of a live process
    running_,         \* TRUE from the end of the constructor to the
                      \* destructor or to the death of the process
    metrics_,         \* the set of known metric names
    activeChunks_,    \* metric -> its active chunk (a map: the domain is
                      \* the set of keys present)
    metricChunks_,    \* metric -> the sequence of its sealed chunks
    writeBuffer_,     \* the ingress queue, oldest first
    sequenceNumber_,  \* WriteAheadLog::sequenceNumber_
    \* the database directory
    walFile,          \* wal.log: the sequence of its records
    chunkFiles,       \* <<metric, id>> -> contents of <metric>_<id>.chunk
    metadataFile,     \* metadata.txt: NoFile, or <<its contents>>
    \* history variables, read by no action's effect on the state above
    nextId,           \* number of points written so far
    sessionWrites,    \* points whose write returned in this session and
                      \* whose metric was not deleted afterwards
    flushedAny,       \* a flush cycle of this session drained a point
    deletedAny,       \* deleteMetric was called in this session
    delSession,       \* metrics deleted in this session, not written since
    delRestart,       \* metrics deleted before the last clean restart,
                      \* not written since
    endKind,          \* while no process lives: how the session ended,
                      \* "clean" (destructor), "crash" (death from
                      \* outside) or "terminated" (std::terminate);
                      \* "none" while one lives
    reopened,         \* <<>>, or, when the constructor was the last step
                      \* taken, <<r>> with r describing the session that
                      \* ended before it
    acked,            \* points whose write returned, in any session, and
                      \* whose metric was not deleted afterwards
    crashOnly,        \* TRUE while no destructor and no deleteMetric ran:
                      \* sessions so far ended by the death of the process
    \* LockFreeQueue in detail (used where the queue is studied by itself)
    head_,            \* LockFreeQueue::head_, a node
    tail_,            \* LockFreeQueue::tail_, a node
    nodes,            \* the nodes allocated so far: node -> [data, next]
    producers,        \* producer -> where it stands in push, and how many
                      \* items it has pushed
    popped,           \* the items pop has returned, oldest first
    \* WriteAheadLog::recover by itself (used where a log is built entry by
    \* entry in walFile and then read)
    logValid,         \* the points of the entries appended to walFile
                      \* before any damage was done to it
    logDamaged,       \* "no", or what was put after those entries
    recovered,        \* <<>>, or <<the points recover returned>>
    \* the codecs by themselves (compression.cpp)
    codecInput,       \* <<>>, or [kind, malformed, array]: the array
                      \* handed to an encoder, or the note that the data
                      \* below came from elsewhere
    codecData,        \* the byte vector an encoder returned or a decoder
                      \* is handed
    codecOutput,      \* <<>>, or <<what the decoder call came to>>
    \* destroy() and the destructor that follows it
    dirExists,        \* the database directory exists
    destroyed,        \* "no"; "destroyed" once destroy() returned;
                      \* "destructed" once the destructor ran after it
    \* one ColumnarChunk by itself
    oneChunk,         \* the chunk
    chunkBefore,      \* the chunk as it was before the last append call
    chunkCall,        \* "none", or how the last append call ended:
                      \* "returned" or "threw"
    \* client queries beside the flusher
    returned,         \* the points queries have returned so far
    \* the mutexes
    holder,           \* mutex -> the thread that holds it, or NoThread
    at,               \* thread -> NotInCall, or [op, pc]: the operation it
                      \* is in and the lock step it stands before
    \* the threads that call flushWriteBuffer
    flusherAt,        \* where the flusher thread stands in flushLoop:
                      \* "while", "sleep", "flush", or "exited"
    mainAt,           \* where the thread that owns the object stands:
                      \* "live" (between constructor and shutdown), "join",
                      \* "final" (final flush and saves), "done", "ctor"
    stopKind,         \* "destructor" or "destroy": the shutdown under way
                      \* or last completed
    poppers,          \* the threads inside flushWriteBuffer
    beforeFinal,      \* the chunk tables, chunk files and ingress queue
                      \* as they were when the join returned
    \* LockFreeQueue of lock_free_structures.h
    ms_head,          \* LockFreeQueue::head_, a node
    ms_tail,          \* LockFreeQueue::tail_, a node
    ms_nodes,         \* the nodes allocated so far: node -> [data, next,
                      \* deleted]; deleted is TRUE once delete ran on it
    ms_threads,       \* thread -> where it stands in enqueue or dequeue
                      \* and its local variables
    usedDeleted,      \* a thread has read or written a node after delete
    ms_crashed        \* the process has died on an invalid access

memVars == <<running_, metrics_, activeChunks_, metricChunks_, writeBuffer_,
             sequenceNumber_>>
diskVars == <<walFile, chunkFiles, metadataFile>>
histVars == <<nextId, sessionWrites, flushedAny, deletedAny, delSession,
              delRestart, endKind, reopened>>
everVars == <<acked, crashOnly>>
queueVars == <<head_, tail_, nodes, producers, popped>>
logVars == <<logValid, logDamaged, recovered>>
codecVars == <<codecInput, codecData, codecOutput>>
dirVars == <<dirExists, destroyed>>
chunkVars == <<oneChunk, chunkBefore, chunkCall>>
seenVars == <<returned>>
lockVars == <<holder, at>>
shutVars == <<flusherAt, mainAt, stopKind, poppers, beforeFinal>>
msVars == <<ms_head, ms_tail, ms_nodes, ms_threads, usedDeleted,
            ms_crashed>>
moreVars == <<seenVars, lockVars, shutVars, msVars>>
unitVars == <<logVars, codecVars, dirVars, chunkVars, moreVars>>
sideVars == <<queueVars, unitVars>>
engineVars == <<memVars, diskVars, histVars, everVars, unitVars>>
vars == <<memVars, diskVars, histVars, everVars, queueVars, unitVars>>

\* An absent file, and the nullptr of loadChunk; a present file or chunk x
\* is <<x>>.
NoFile == <<>>
NoChunk == <<>>

\* The empty map (std::unordered_map after construction or clear()).
EmptyMap == <<>>

\* m[key] = value on a std::unordered_map.
MapPut(map, key, value) ==
    [k \in DOMAIN map \cup {key} |-> IF k = key THEN value ELSE map[k]]

\* map.erase(key).
MapErase(map, key) == [k \in DOMAIN map \ {key} |-> map[k]]

(***************************************************************************)
(* Queries and aggregates (waffledb.cpp).                                  *)
(***************************************************************************)
\* The TimePoint that query builds from row idx (0-based) of a chunk.
RowPoint(c, metric, idx) ==
    [id |-> c.ids[idx + 1], timestamp |-> c.timestamps_[idx + 1],
     metric |-> metric, value |-> c.values_[idx + 1],
     tags |-> c.tags_[idx + 1]]

\* The body both chunk loops of query share: prune on the chunk's
\* timestamp range, select by time, intersect with the tag matches when
\* tags is not empty, and emit the rows.
ChunkQuery(c, metric, start_time, end_time, tags) ==
    IF c.minTimestamp_ <= end_time /\ c.maxTimestamp_ >= start_time
    THEN LET timeIndices == queryTimeRange(c, start_time, end_time)
             indices == IF tags = NoTags THEN timeIndices
                        ELSE set_intersection(timeIndices,
                                              queryWithTags(c, tags))
         IN [k \in 1..Len(indices) |-> RowPoint(c, metric, indices[k])]
    ELSE <<>>

RECURSIVE ConcatAll(_)
ConcatAll(seqs) ==
    IF seqs = <<>> THEN <<>> ELSE Head(seqs) \o ConcatAll(Tail(seqs))

\* Insert p behind the elements whose timestamp is not larger.
RECURSIVE InsertByTimestamp(_, _)
InsertByTimestamp(sorted, p) ==
    IF sorted = <<>> THEN <<p>>
    ELSE IF p.timestamp < Head(sorted).timestamp THEN <<p>> \o sorted
    ELSE <<Head(sorted)>> \o InsertByTimestamp(Tail(sorted), p)

\* query without the final sort.
SortByTimestamp_asCollected(s) == s

\* std::sort by timestamp.  std::sort leaves the order of points with
\* equal timestamps unspecified; this is one such order, and the
\* properties below compare results by content, not by position.
RECURSIVE SortByTimestamp(_)
SortByTimestamp(s) ==
    IF s = <<>> THEN <<>>
    ELSE InsertByTimestamp(SortByTimestamp(SubSeq(s, 1, Len(s) - 1)),
                           s[Len(s)])

\* The rows query collects before sorting: the active chunk first, then
\* the sealed chunks in list order.
QueryUnsorted(active, sealed, metric, start_time, end_time, tags) ==
    LET fromActive ==
            IF metric \in DOMAIN active /\ active[metric].count_ > 0
            THEN ChunkQuery(active[metric], metric, start_time, end_time, tags)
            ELSE <<>>
        fromSealed ==
            IF metric \in DOMAIN sealed
            THEN ConcatAll([i \in 1..Len(sealed[metric]) |->
                     ChunkQuery(sealed[metric][i], metric,
                                start_time, end_time, tags)])
            ELSE <<>>
    IN fromActive \o fromSealed

\* TimeSeriesDatabase::Impl::query on given chunk tables.
QueryOn(active, sealed, metric, start_time, end_time, tags) ==
    SortByTimestamp(
        QueryUnsorted(active, sealed, metric, start_time, end_time, tags))

\* TimeSeriesDatabase::Impl::query in the current state.
query(metric, start_time, end_time, tags) ==
    QueryOn(activeChunks_, metricChunks_, metric, start_time, end_time, tags)

\* The chunks sum and avg visit: the active chunk when it holds rows, then
\* the sealed chunks.
AggregateChunks(metric) ==
    (IF metric \in DOMAIN activeChunks_ /\ activeChunks_[metric].count_ > 0
     THEN <<activeChunks_[metric]>> ELSE <<>>)
    \o (IF metric \in DOMAIN metricChunks_ THEN metricChunks_[metric]
        ELSE <<>>)

\* sum with the active chunk left out.
sum_sealedOnly(metric, start_time, end_time, tags) ==
    LET chunks == IF metric \in DOMAIN metricChunks_
                  THEN metricChunks_[metric] ELSE <<>>
    IN SumSeq([i \in 1..Len(chunks) |->
                  ChunkSum(chunks[i], start_time, end_time)])

\* TimeSeriesDatabase::Impl::sum (the tags argument is unnamed and unused
\* in the source).
sum(metric, start_time, end_time, tags) ==
    LET chunks == AggregateChunks(metric)
    IN SumSeq([i \in 1..Len(chunks) |->
                  ChunkSum(chunks[i], start_time, end_time)])

\* x + y on reduced fractions.
FractionAdd(x, y) == Quotient(x[1] * y[2] + y[1] * x[2], x[2] * y[2])

RECURSIVE FractionSum(_)
FractionSum(s) ==
    IF s = <<>> THEN Zero ELSE FractionAdd(Head(s), FractionSum(Tail(s)))

\* avg as the mean of the per-chunk averages (ColumnarChunk::avg).
avg_ofChunkAverages(metric, start_time, end_time, tags) ==
    LET chunks == AggregateChunks(metric)
        hit == SelectSeq(chunks, LAMBDA c :
                   queryTimeRange(c, start_time, end_time) # <<>>)
        chunkAvg(c) ==
            Quotient(ChunkSum(c, start_time, end_time),
                     Len(queryTimeRange(c, start_time, end_time)))
        total == FractionSum([i \in 1..Len(hit) |-> chunkAvg(hit[i])])
    IN IF hit # <<>> THEN Quotient(total[1], total[2] * Len(hit)) ELSE Zero

\* TimeSeriesDatabase::Impl::avg: total and count are accumulated over the
\* chunks whose time selection is not empty, and divided once.
avg(metric, start_time, end_time, tags) ==
    LET chunks == AggregateChunks(metric)
        hit == SelectSeq(chunks, LAMBDA c :
                   queryTimeRange(c, start_time, end_time) # <<>>)
        total == SumSeq([i \in 1..Len(hit) |->
                     ChunkSum(hit[i], start_time, end_time)])
        count == SumSeq([i \in 1..Len(hit) |->
                     Len(queryTimeRange(hit[i], start_time, end_time))])
    IN IF count > 0 THEN Quotient(total, count) ELSE Zero

\* The values of a chunk at the indices of queryTimeRange.
SelectedValues(c, startTime, endTime) ==
    LET indices == queryTimeRange(c, startTime, endTime)
    IN [k \in 1..Len(indices) |-> c.values_[indices[k] + 1]]

\* The loop min_val = std::min(min_val, v) over s, from the start value.
RECURSIVE FoldMin(_, _)
FoldMin(start, s) ==
    IF s = <<>> THEN start ELSE FoldMin(Min(start, Head(s)), Tail(s))

\* The loop max_val = std::max(max_val, v) over s, from the start value.
RECURSIVE FoldMax(_, _)
FoldMax(start, s) ==
    IF s = <<>> THEN start ELSE FoldMax(Max(start, Head(s)), Tail(s))

\* ColumnarChunk::min: 0.0 on an empty selection, else the fold from
\* numeric_limits<double>::max() (the AVX2 path folds the same values).
ChunkMin(c, startTime, endTime) ==
    LET selected == SelectedValues(c, startTime, endTime)
    IN IF selected = <<>> THEN 0 ELSE FoldMin(DBL_MAX, selected)

\* ColumnarChunk::max: 0.0 on an empty selection, else the fold from
\* numeric_limits<double>::lowest().
ChunkMax(c, startTime, endTime) ==
    LET selected == SelectedValues(c, startTime, endTime)
    IN IF selected = <<>> THEN 0 ELSE FoldMax(DBL_LOWEST, selected)

\* The loop of Impl::min over the chunk minima, in visiting order: acc is
\* [val, found]; a chunk minimum replaces val, and sets found, only when
\* it is smaller than val.
RECURSIVE MinOverChunks(_, _)
MinOverChunks(acc, chunkMins) ==
    IF chunkMins = <<>> THEN acc
    ELSE MinOverChunks(IF Head(chunkMins) < acc.val
                       THEN [val |-> Head(chunkMins), found |-> TRUE]
                       ELSE acc,
                       Tail(chunkMins))

\* The loop of Impl::max, likewise with "larger than".
RECURSIVE MaxOverChunks(_, _)
MaxOverChunks(acc, chunkMaxs) ==
    IF chunkMaxs = <<>> THEN acc
    ELSE MaxOverChunks(IF Head(chunkMaxs) > acc.val
                       THEN [val |-> Head(chunkMaxs), found |-> TRUE]
                       ELSE acc,
                       Tail(chunkMaxs))

\* TimeSeriesDatabase::Impl::min (the tags argument is unnamed and unused
\* in the source): over the chunks whose time selection is not empty,
\* starting from numeric_limits<double>::max(); 0.0 when nothing was found.
min(metric, start_time, end_time, tags) ==
    LET chunks == AggregateChunks(metric)
        hit == SelectSeq(chunks, LAMBDA c :
                   queryTimeRange(c, start_time, end_time) # <<>>)
        out == MinOverChunks([val |-> DBL_MAX, found |-> FALSE],
                   [i \in 1..Len(hit) |->
                       ChunkMin(hit[i], start_time, end_time)])
    IN IF out.found THEN out.val ELSE 0

\* TimeSeriesDatabase::Impl::max, from numeric_limits<double>::lowest().
max(metric, start_time, end_time, tags) ==
    LET chunks == AggregateChunks(metric)
        hit == SelectSeq(chunks, LAMBDA c :
                   queryTimeRange(c, start_time, end_time) # <<>>)
        out == MaxOverChunks([val |-> DBL_LOWEST, found |-> FALSE],
                   [i \in 1..Len(hit) |->
                       ChunkMax(hit[i], start_time, end_time)])
    IN IF out.found THEN out.val ELSE 0

\* TimeSeriesDatabase::Impl::getMetrics.
getMetrics == metrics_

(***************************************************************************)
(* The write-ahead log (wal.cpp).                                          *)
(***************************************************************************)
\* wal.log is modelled as the sequence of its fields, called cells: the cell
\* [f, n, v] is n bytes holding the value v; f names the field the writer
\* put there and is read by no operator of the log.  A field that was cut
\* short is a cell with fewer bytes than the field has.
Cell(f, n, v) == [f |-> f, n |-> n, v |-> v]

\* The number of bytes of a sequence of cells.
RECURSIVE BytesBetween(_, _, _)
BytesBetween(cells, first, last) ==
    IF first > last THEN 0
    ELSE IF first = last THEN cells[first].n
    ELSE LET mid == (first + last) \div 2
         IN BytesBetween(cells, first, mid)
                + BytesBetween(cells, mid + 1, last)

Bytes(cells) == BytesBetween(cells, 1, Len(cells))

\* std::string::length() of a metric name: its parts and the '_' between
\* them.
MetricLength(metric) ==
    SumSeq([i \in 1..Len(metric) |-> Len(metric[i])]) + Len(metric) - 1

\* The keys of a tag map in the order the iteration meets them (the order
\* of a std::unordered_map is unspecified; parseEntry gives the same map
\* for every order).  Here shorter keys come first and keys of one length
\* come in some order.
RECURSIVE KeysInOrder(_)
KeysInOrder(keys) ==
    LET lengths == {Len(k) : k \in keys}
        middle == CHOOSE l \in lengths :
                      Cardinality({m \in lengths : m < l})
                          = Cardinality(lengths) \div 2
        key == CHOOSE k \in keys : TRUE
    IN IF keys = {} THEN <<>>
       ELSE IF Cardinality(lengths) = 1
            THEN <<key>> \o KeysInOrder(keys \ {key})
       ELSE KeysInOrder({k \in keys : Len(k) < middle})
                \o KeysInOrder({k \in keys : Len(k) >= middle})

\* The tags of an entry as writeEntryToFile lays them out: for each pair
\* the key length, the key, the value length and the value.
EncodeTags(tags, keys) ==
    [i \in 1..(4 * Len(keys)) |->
        LET key == keys[(i - 1) \div 4 + 1]
        IN CASE i % 4 = 1 -> Cell("keyLen", 4, Len(key))
             [] i % 4 = 2 -> Cell("key", Len(key), key)
             [] i % 4 = 3 -> Cell("valueLen", 4, Len(tags[key]))
             [] OTHER -> Cell("value", Len(tags[key]), tags[key])]

\* The bytes writeEntryToFile puts after the entry size: sequence,
\* timestamp, value, metric length, metric, tag count and the tags.  The
\* cell "id" has no byte: it carries the identity the model gives a
\* written point.
EntryBody(sequence, point) ==
    <<Cell("sequence", 8, sequence), Cell("timestamp", 8, point.timestamp),
      Cell("value", 8, point.value), Cell("id", 0, point.id),
      Cell("metricLen", 4, MetricLength(point.metric)),
      Cell("metric", MetricLength(point.metric), point.metric),
      Cell("tagCount", 4, Cardinality(DOMAIN point.tags))>>
        \o EncodeTags(point.tags, KeysInOrder(DOMAIN point.tags))

\* The whole entry: the entry size (totalSize minus its own four bytes) and
\* the body.
EncodeEntry(sequence, point) ==
    <<Cell("entrySize", 4, Bytes(EntryBody(sequence, point)))>>
        \o EntryBody(sequence, point)

\* WriteAheadLog::writeEntryToFile: the next sequence number is taken and
\* the entry is appended to wal.log.  log is [file, seq].  No length is
\* checked on the way out.
writeEntryToFile(log, point) ==
    [file |-> log.file \o EncodeEntry(log.seq, point),
     seq |-> log.seq + 1]

\* WriteAheadLog::writeEntryToFile when the stream cannot write the record:
\* the sequence number is taken, logFile_.write and flush fail, the stream
\* state is not looked at and nothing is thrown; wal.log stays as it was.
writeEntryToFile_failing(log, point) ==
    [file |-> log.file, seq |-> log.seq + 1]

\* WriteAheadLog::appendBatch: writeEntryToFile for each point in order.
RECURSIVE appendBatch(_, _)
appendBatch(log, points) ==
    IF points = <<>> THEN log
    ELSE appendBatch(writeEntryToFile(log, Head(points)), Tail(points))

\* The caps parseEntry puts on the length of a metric name, of a tag key
\* and of a tag value: "len > cap" throws.
TooLong_never(len, cap) == FALSE

TooLong(len, cap) == len > cap

\* The checks of the tag loop of parseEntry.  data starts at the next key
\* length, offset is its position in the entry, count the number of pairs
\* still to read.  FALSE where the code throws.
RECURSIVE parseTags(_, _, _, _)
parseTags(data, offset, entrySize, count) ==
    LET keyLen == data[1].v
        valueLen == data[3].v
    IN IF count = 0 THEN TRUE
       ELSE IF offset + 4 > entrySize THEN FALSE
       ELSE IF TooLong(keyLen, MaxTagLength)
                   \/ offset + 4 + keyLen > entrySize THEN FALSE
       ELSE IF offset + 4 + keyLen + 4 > entrySize THEN FALSE
       ELSE IF TooLong(valueLen, MaxTagLength)
                   \/ offset + 8 + keyLen + valueLen > entrySize THEN FALSE
       ELSE parseTags(SubSeq(data, 5, Len(data)),
                      offset + 8 + keyLen + valueLen, entrySize, count - 1)

\* point.tags after the tag loop read count pairs from data:
\* point.tags[key] = value for each pair in turn, so the last pair of a key
\* gives its value.
TagsRead(data, count) ==
    LET KeyAt(j) == data[4 * j - 2].v
    IN [key \in {KeyAt(j) : j \in 1..count} |->
           LET last == CHOOSE j \in 1..count :
                           /\ KeyAt(j) = key
                           /\ \A k \in (j + 1)..count : KeyAt(k) # key
           IN data[4 * last].v]

\* WriteAheadLog::parseEntry on the bytes after an entry size.  Returns
\* [ok, point, maxSequence]: ok is FALSE where the code throws, and
\* maxSequence is the reference parameter as the call leaves it (it is
\* updated as soon as the sequence was read).
parseEntry(data, entrySize, maxSequence) ==
    LET sequence == data[1].v
        seen == Max(maxSequence, sequence)
        metricLen == data[5].v
        tagCount == data[7].v
        tagData == SubSeq(data, 8, Len(data))
        tagsOk == parseTags(tagData, 28 + metricLen + 4, entrySize,
                            tagCount)
        Throw(m) == [ok |-> FALSE, point |-> <<>>, maxSequence |-> m]
    IN IF 8 > entrySize THEN Throw(maxSequence)
       ELSE IF 16 > entrySize THEN Throw(seen)
       ELSE IF 24 > entrySize THEN Throw(seen)
       ELSE IF 28 > entrySize THEN Throw(seen)
       ELSE IF TooLong(metricLen, MaxMetricLength)
                   \/ 28 + metricLen > entrySize THEN Throw(seen)
       ELSE IF 28 + metricLen + 4 > entrySize THEN Throw(seen)
       ELSE IF tagCount > MaxTagCount THEN Throw(seen)
       ELSE IF ~tagsOk THEN Throw(seen)
       ELSE [ok |-> TRUE,
             point |-> [id |-> data[4].v, timestamp |-> data[2].v,
                        metric |-> data[6].v, value |-> data[3].v,
                        tags |-> TagsRead(tagData, tagCount)],
             maxSequence |-> seen]

\* offset += entrySize: the cells that follow the first n bytes.
SkipBytes(cells, n) ==
    LET skipped == CHOOSE k \in 0..Len(cells) :
                       /\ BytesBetween(cells, 1, k) >= n \/ k = Len(cells)
                       /\ k > 0 => BytesBetween(cells, 1, k - 1) < n
    IN SubSeq(cells, skipped + 1, Len(cells))

\* std::memcpy(&entrySize, fileBuffer.data() + offset, sizeof(uint32_t)):
\* the four bytes at the offset, least significant first.  Where the field
\* there was cut short and another field follows it in the file, the bytes
\* that are left of it are the low bytes of the value read and the first
\* bytes of the following field are its high bytes.
ReadEntrySize(data) ==
    IF data[1].n >= 4 \/ Len(data) = 1 THEN data[1].v
    ELSE data[1].v
             + (256 ^ data[1].n) * (data[2].v % (256 ^ (4 - data[1].n)))

\* The loop of WriteAheadLog::recover over the rest of the file: it stops
\* at the end of the file, at an incomplete or invalid entry size, and at
\* an entry on which parseEntry throws (the exception is caught in the
\* loop).  Returns [points, maxSequence].
RECURSIVE RecoverLoop(_, _, _)
RecoverLoop(data, points, maxSequence) ==
    LET remaining == Bytes(data)
        entrySize == ReadEntrySize(data)
        parsed == parseEntry(Tail(data), entrySize, maxSequence)
        Break(m) == [points |-> points, maxSequence |-> m]
    IN IF remaining = 0 THEN Break(maxSequence)
       ELSE IF 4 > remaining THEN Break(maxSequence)
       ELSE IF entrySize = 0 \/ 4 + entrySize > remaining
            THEN Break(maxSequence)
       ELSE IF ~parsed.ok THEN Break(parsed.maxSequence)
       ELSE RecoverLoop(SkipBytes(Tail(data), entrySize),
                        Append(points, parsed.point), parsed.maxSequence)

\* WriteAheadLog::recover: the points of the entries read, in file order.
recover(file) == RecoverLoop(file, <<>>, 0).points

\* sequenceNumber_ after recover: unchanged when the file is empty (the
\* early return), else the largest sequence read plus one.
SequenceAfterRecover(file, seq) ==
    IF Bytes(file) = 0 THEN seq
    ELSE RecoverLoop(file, <<>>, 0).maxSequence + 1

(***************************************************************************)
(* The chunk store (ColumnarStorageManager, columnar_storage.cpp).         *)
(***************************************************************************)
\* ColumnarChunk::serialize: the header (minTimestamp_, maxTimestamp_,
\* count_), the timestamp and value columns and the per-row tag maps.
serialize(c) ==
    [minTimestamp_ |-> c.minTimestamp_, maxTimestamp_ |-> c.maxTimestamp_,
     count_ |-> c.count_, timestamps_ |-> c.timestamps_,
     values_ |-> c.values_, tags_ |-> c.tags_, ids |-> c.ids]

\* The tag checks of ColumnarChunk::deserialize on the tag map of one row:
\* at most MaxTagCount pairs, keys and values of at most MaxTagLength
\* characters.
TagMapAccepted(tagMap) ==
    /\ Cardinality(DOMAIN tagMap) <= MaxTagCount
    /\ \A key \in DOMAIN tagMap :
           Len(key) <= MaxTagLength /\ Len(tagMap[key]) <= MaxTagLength

\* ColumnarChunk::deserialize rejects a count above VALUES_PER_CHUNK,
\* columns shorter than count, and a row whose tag map fails the tag checks.
DeserializeOk(data) ==
    /\ data.count_ <= VALUES_PER_CHUNK
    /\ Len(data.timestamps_) >= data.count_
    /\ Len(data.values_) >= data.count_
    /\ Len(data.tags_) >= data.count_
    /\ \A i \in 1..data.count_ : TagMapAccepted(data.tags_[i])

\* ColumnarChunk::deserialize on accepted data.
deserialize(data) ==
    [timestamps_ |-> SubSeq(data.timestamps_, 1, data.count_),
     values_ |-> SubSeq(data.values_, 1, data.count_),
     tags_ |-> SubSeq(data.tags_, 1, data.count_),
     ids |-> SubSeq(data.ids, 1, data.count_),
     minTimestamp_ |-> data.minTimestamp_,
     maxTimestamp_ |-> data.maxTimestamp_, count_ |-> data.count_]

\* ColumnarStorageManager::saveChunk: (over)write <metric>_<chunkId>.chunk.
saveChunk(files, metric, chunkId, chunk) ==
    MapPut(files, <<metric, chunkId>>, serialize(chunk))

\* ColumnarStorageManager::loadChunk: NoChunk when the file is missing or
\* is rejected by deserialize.
loadChunk(files, metric, chunkId) ==
    IF <<metric, chunkId>> \notin DOMAIN files THEN NoChunk
    ELSE IF ~DeserializeOk(files[<<metric, chunkId>>]) THEN NoChunk
    ELSE <<deserialize(files[<<metric, chunkId>>])>>

\* s is a prefix of t.
IsPrefix(s, t) == Len(s) <= Len(t) /\ SubSeq(t, 1, Len(s)) = s

\* The file name test of ColumnarStorageManager::deleteChunks,
\* filename.find(metric + "_") == 0, for the chunk file of fileMetric: its
\* name is the parts of fileMetric and then the id, joined by '_', so it
\* starts with metric + "_" exactly when the parts of metric are a prefix
\* of the parts of fileMetric.
NameStartsWith(fileMetric, metric) == IsPrefix(metric, fileMetric)

\* ColumnarStorageManager::deleteChunks.
deleteChunks(files, metric) ==
    [key \in {k \in DOMAIN files : ~NameStartsWith(k[1], metric)} |->
        files[key]]

(***************************************************************************)
(* Flushing and persistence (waffledb.cpp).                                *)
(***************************************************************************)
\* The inner loop of flushWriteBuffer for one metric.  st is
\* [active, sealed, files, threw]: the metric's active chunk, its sealed
\* list, the chunk files, and whether append threw.  A full active chunk is
\* moved to the sealed list, saved under the id size() - 1 and replaced by
\* an empty one before the append.  An exception of append leaves the loop.
RECURSIVE AppendPoints(_, _, _)
AppendPoints(st, metric, pts) ==
    IF pts = <<>> THEN st
    ELSE LET sealedNow ==
                 IF canAppend(st.active) THEN st
                 ELSE [active |-> EmptyChunk,
                       sealed |-> Append(st.sealed, st.active),
                       files |-> saveChunk(st.files, metric,
                                           Len(st.sealed), st.active),
                       threw |-> st.threw]
         IN IF appendThrows(sealedNow.active)
            THEN [sealedNow EXCEPT !.threw = TRUE]
            ELSE AppendPoints(
                     [sealedNow EXCEPT !.active = append(@, Head(pts))],
                     metric, Tail(pts))

\* The metrics of a sequence of points.
MetricsOf(points) == {points[i].metric : i \in 1..Len(points)}

\* The points of one metric, in order (metricPoints[metric]).
PointsOf(points, metric) == SelectSeq(points, LAMBDA p : p.metric = metric)

\* flushWriteBuffer from the grouping on, for one metric of the batch:
\* ensureActiveChunk, then the append loop.  A metric has an entry in
\* metricChunks_ only once a chunk of it was sealed.
FlushMetric(active, sealed, files, points, metric) ==
    AppendPoints(
        [active |-> IF metric \in DOMAIN active THEN active[metric]
                    ELSE EmptyChunk,
         sealed |-> IF metric \in DOMAIN sealed THEN sealed[metric]
                    ELSE <<>>,
         files |-> files, threw |-> FALSE],
        metric, PointsOf(points, metric))

\* TimeSeriesDatabase::Impl::flushWriteBuffer on the drained points: the
\* chunk tables and chunk files afterwards, and whether an append threw
\* (the exception then leaves flushWriteBuffer).  The metrics of the batch
\* are handled independently of each other (each has its own chunks and its
\* own file names), so the iteration order of metricPoints does not matter.
flushWriteBuffer(active, sealed, files, points) ==
    LET batch == MetricsOf(points)
        out == [m \in batch |-> FlushMetric(active, sealed, files, points, m)]
        newKeys == UNION {DOMAIN out[m].files : m \in batch}
    IN [active |-> [m \in DOMAIN active \cup batch |->
                       IF m \in batch THEN out[m].active ELSE active[m]],
        sealed |-> [m \in DOMAIN sealed
                          \cup {b \in batch : out[b].sealed # <<>>} |->
                       IF m \in batch THEN out[m].sealed ELSE sealed[m]],
        files |-> [key \in DOMAIN files \cup newKeys |->
                      IF key[1] \in batch THEN out[key[1]].files[key]
                      ELSE files[key]],
        threw |-> \E m \in batch : out[m].threw]

\* TimeSeriesDatabase::Impl::saveActiveChunks: every active chunk holding
\* rows is saved under the id size-of-the-sealed-list and moved to that
\* list; activeChunks_ is cleared.  Returns [sealed, files].
saveActiveChunks(active, sealed, files) ==
    LET moved == {m \in DOMAIN active : active[m].count_ > 0}
        idOf(m) == IF m \in DOMAIN sealed THEN Len(sealed[m]) ELSE 0
    IN [sealed |-> [m \in DOMAIN sealed \cup moved |->
                       IF m \in moved
                       THEN (IF m \in DOMAIN sealed THEN sealed[m] ELSE <<>>)
                            \o <<active[m]>>
                       ELSE sealed[m]],
        files |-> [key \in DOMAIN files \cup {<<m, idOf(m)>> : m \in moved}
                   |-> IF key[1] \in moved /\ key[2] = idOf(key[1])
                       THEN serialize(active[key[1]])
                       ELSE files[key]]]

\* TimeSeriesDatabase::Impl::saveMetadata: the metric names, and the number
\* of sealed chunks of every metric that has some.
saveMetadata(metrics, sealed) ==
    <<[metrics |-> metrics,
       chunks |-> [m \in {k \in DOMAIN sealed : sealed[k] # <<>>} |->
                      Len(sealed[m])]]>>

\* The chunk load loop of loadMetadata for one metric: the chunks of ids
\* 0 .. chunkCount - 1 that loadChunk returns, in id order.
LoadChunks(files, metric, chunkCount) ==
    LET ids == SelectSeq([i \in 1..chunkCount |-> i - 1],
                         LAMBDA id : loadChunk(files, metric, id) # NoChunk)
    IN [k \in 1..Len(ids) |-> loadChunk(files, metric, ids[k])[1]]

\* TimeSeriesDatabase::Impl::loadMetadata: [metrics, sealed] as read from
\* the directory.  A metric gets an entry in metricChunks_ only when one of
\* its chunks was loaded.
loadMetadata(meta, files) ==
    IF meta = NoFile THEN [metrics |-> {}, sealed |-> EmptyMap]
    ELSE LET listed == DOMAIN meta[1].chunks
             loaded == {m \in listed :
                           LoadChunks(files, m, meta[1].chunks[m]) # <<>>}
         IN [metrics |-> meta[1].metrics,
             sealed |-> [m \in loaded |->
                            LoadChunks(files, m, meta[1].chunks[m])]]

\* hasExistingData never set: the WAL is replayed on every open.
hasExistingData_never(active, sealed) == FALSE

\* The test of the constructor: some chunk table is not empty.
hasExistingData(active, sealed) ==
    DOMAIN sealed # {} \/ DOMAIN active # {}

(***************************************************************************)
(* LockFreeQueue (waffledb.cpp), in detail.                                *)
(*                                                                         *)
(* A node is named by the item it carries, <<producer, number>>; the dummy *)
(* node of the constructor is Dummy.  nodes maps every node to its data    *)
(* and next fields.                                                        *)
(***************************************************************************)
\* Concurrent producers, and push calls made by each.
MaxProducers == 2
MaxPush == 2
Producers == 1..MaxProducers

\* The null pointer, the same for Node * and T *.
nullptr == <<>>

\* The node LockFreeQueue::LockFreeQueue allocates.
Dummy == <<0, 0>>

\* What delete leaves behind a T *: a pointer that must not be read.
Deleted == <<"deleted">>

\* A producer outside push that has pushed `sent` items.
Idle(sent) ==
    [pc |-> "idle", sent |-> sent, new_node |-> nullptr,
     prev_tail |-> nullptr]

\* pop that takes the newest linked item instead of the oldest.
pop_newest(nodeMap, head) ==
    LET linked == {n \in DOMAIN nodeMap : nodeMap[n].next # nullptr}
        last == CHOOSE n \in DOMAIN nodeMap :
                    /\ nodeMap[n].next = nullptr
                    /\ n = head \/ \E m \in linked : nodeMap[m].next = n
        pred == CHOOSE m \in linked : nodeMap[m].next = last
    IN IF nodeMap[head].next = nullptr
       THEN [ok |-> FALSE, result |-> nullptr, head |-> head,
             nodes |-> nodeMap]
       ELSE [ok |-> TRUE, result |-> nodeMap[last].data, head |-> head,
             nodes |-> [nodeMap EXCEPT ![pred].next = nullptr]]

\* pop that returns the item and leaves head_ where it was.
pop_keepHead(nodeMap, head) ==
    LET next == nodeMap[head].next
    IN IF next = nullptr
       THEN [ok |-> FALSE, result |-> nullptr, head |-> head,
             nodes |-> nodeMap]
       ELSE [ok |-> TRUE, result |-> nodeMap[next].data, head |-> head,
             nodes |-> nodeMap]

\* LockFreeQueue::pop, by the one consumer: [ok, result, head, nodes], the
\* return value, the item, and head_ and the nodes afterwards.  head_ is
\* written by the consumer only and a node's data is set before the node
\* is published, so the one read that races with the producers is
\* head->next, and pop takes effect there.  On success the old head node
\* is deleted and the data of the new head is deleted.
pop(nodeMap, head) ==
    LET next == nodeMap[head].next
    IN IF next = nullptr
       THEN [ok |-> FALSE, result |-> nullptr, head |-> head,
             nodes |-> nodeMap]
       ELSE IF nodeMap[next].data = nullptr
       THEN [ok |-> FALSE, result |-> nullptr, head |-> head,
             nodes |-> nodeMap]
       ELSE [ok |-> TRUE, result |-> nodeMap[next].data, head |-> next,
             nodes |-> [n \in DOMAIN nodeMap \ {head} |->
                           IF n = next
                           THEN [data |-> Deleted, next |-> nodeMap[n].next]
                           ELSE nodeMap[n]]]

\* The start of LockFreeQueue::push by producer p: the node is allocated
\* and filled, and tail_.exchange(new_node) makes it the tail.
push_exchange(p) ==
    LET new_node == <<p, producers[p].sent + 1>>
    IN /\ producers[p].pc = "idle"
       /\ producers[p].sent < MaxPush
       /\ nodes' = [n \in DOMAIN nodes \cup {new_node} |->
                       IF n = new_node
                       THEN [data |-> new_node, next |-> nullptr]
                       ELSE nodes[n]]
       /\ tail_' = new_node
       /\ producers' = [producers EXCEPT ![p] =
                            [pc |-> "link", sent |-> @.sent,
                             new_node |-> new_node, prev_tail |-> tail_]]
       /\ UNCHANGED <<head_, popped, engineVars>>

\* The end of push: prev_tail->next.store(new_node), and push returns.
push_link(p) ==
    /\ producers[p].pc = "link"
    /\ nodes' = [nodes EXCEPT ![producers[p].prev_tail].next =
                                  producers[p].new_node]
    /\ producers' = [producers EXCEPT ![p] = Idle(@.sent + 1)]
    /\ UNCHANGED <<head_, tail_, popped, engineVars>>

\* A call of pop by the consumer.
Pop ==
    LET out == pop(nodes, head_)
    IN /\ head_' = out.head
       /\ nodes' = out.nodes
       /\ popped' = IF out.ok THEN Append(popped, out.result) ELSE popped
       /\ UNCHANGED <<tail_, producers, engineVars>>

(***************************************************************************)
(* The operations.                                                         *)
(***************************************************************************)
\* The points clients write in the life-cycle specification Spec, and in
\* the query specification QuerySpec (without the id, which write adds).
LifePoints ==
    [timestamp : {10}, metric : {CPU, CPU_USER}, value : {1},
     tags : {NoTags}]
QueryPoints ==
    {pt \in [timestamp : Timestamps, metric : {CPU}, value : Values,
             tags : PointTagMaps] :
        pt.tags = NoTags \/ pt.value = 1}

\* The point of the k-th write call.
Stamp(pt, k) ==
    [id |-> k, timestamp |-> pt.timestamp, metric |-> pt.metric,
     value |-> pt.value, tags |-> pt.tags]

\* The threads that call enqueue, the thread that calls dequeue, and a
\* thread outside a call; calls counts the completed calls of enqueue.
MsEnqueuers == {<<"enqueue", p>> : p \in Producers}
MsDequeuer == <<"dequeue", 0>>
MsThreads == MsEnqueuers \cup {MsDequeuer}
MsIdle(calls) ==
    [pc |-> "idle", calls |-> calls, newNode |-> nullptr,
     first |-> nullptr, last |-> nullptr, next |-> nullptr,
     data |-> nullptr]

\* The mutexes: TimeSeriesDatabase::Impl::metricsMutex_ and chunksMutex_,
\* WriteAheadLog::writeMutex_, and the mutex_ of the index.
Mutexes == {"metricsMutex_", "chunksMutex_", "writeMutex_", "mutex_"}

\* The threads: MaxClients clients and the background flusher.
MaxClients == 2
Clients == {<<"client", i>> : i \in 1..MaxClients}
Flusher == <<"flusher", 0>>
Threads == Clients \cup {Flusher}
NoThread == <<"none", 0>>
Main == <<"main", 0>>
NotInCall == [op |-> "none", pc |-> 0]

\* The state after the constructor ran on an empty directory.
Init ==
    /\ running_ = TRUE
    /\ metrics_ = {}
    /\ activeChunks_ = EmptyMap
    /\ metricChunks_ = EmptyMap
    /\ writeBuffer_ = <<>>
    /\ sequenceNumber_ = 0
    /\ walFile = <<>>
    /\ chunkFiles = EmptyMap
    /\ metadataFile = NoFile
    /\ nextId = 0
    /\ sessionWrites = {}
    /\ flushedAny = FALSE
    /\ deletedAny = FALSE
    /\ delSession = {}
    /\ delRestart = {}
    /\ endKind = "none"
    /\ reopened = <<>>
    /\ acked = {}
    /\ crashOnly = TRUE
    /\ head_ = Dummy
    /\ tail_ = Dummy
    /\ nodes = [n \in {Dummy} |-> [data |-> nullptr, next |-> nullptr]]
    /\ producers = [p \in Producers |-> Idle(0)]
    /\ popped = <<>>
    /\ logValid = <<>>
    /\ logDamaged = "no"
    /\ recovered = <<>>
    /\ codecInput = <<>>
    /\ codecData = <<>>
    /\ codecOutput = <<>>
    /\ dirExists = TRUE
    /\ destroyed = "no"
    /\ oneChunk = EmptyChunk
    /\ chunkBefore = EmptyChunk
    /\ chunkCall = "none"
    /\ returned = {}
    /\ holder = [m \in Mutexes |-> NoThread]
    /\ at = [t \in Threads |-> NotInCall]
    /\ flusherAt = "while"
    /\ mainAt = "live"
    /\ stopKind = "destructor"
    /\ poppers = {}
    /\ beforeFinal = [active |-> EmptyMap, sealed |-> EmptyMap,
                      files |-> EmptyMap, queue |-> <<>>]
    /\ ms_head = Dummy
    /\ ms_tail = Dummy
    /\ ms_nodes = [n \in {Dummy} |->
                      [data |-> nullptr, next |-> nullptr,
                       deleted |-> FALSE]]
    /\ ms_threads = [t \in MsThreads |-> MsIdle(0)]
    /\ usedDeleted = FALSE
    /\ ms_crashed = FALSE

\* TimeSeriesDatabase::Impl::writeBatch(points): the metrics are registered,
\* the points are appended to the WAL and pushed on the ingress queue.
writeBatch(pts) ==
    LET points == [i \in 1..Len(pts) |-> Stamp(pts[i], nextId + i)]
        log == appendBatch([file |-> walFile, seq |-> sequenceNumber_],
                           points)
    IN /\ running_
       /\ nextId + Len(pts) <= MaxWrites
       /\ metrics_' = metrics_ \cup MetricsOf(points)
       /\ walFile' = log.file
       /\ sequenceNumber_' = log.seq
       /\ writeBuffer_' = writeBuffer_ \o points
       /\ nextId' = nextId + Len(pts)
       /\ sessionWrites' = sessionWrites \cup Range(points)
       /\ delSession' = delSession \ MetricsOf(points)
       /\ delRestart' = delRestart \ MetricsOf(points)
       /\ reopened' = <<>>
       /\ acked' = acked \cup Range(points)
       /\ UNCHANGED <<running_, activeChunks_, metricChunks_, chunkFiles,
                      metadataFile, flushedAny, deletedAny, endKind,
                      crashOnly, sideVars>>

\* TimeSeriesDatabase::Impl::write(point): as writeBatch of the one point
\* (WriteAheadLog::append is writeEntryToFile under the same mutex).
write(pt) == writeBatch(<<pt>>)

\* One cycle of flushLoop that finds points in the ingress queue: the queue
\* is drained and the points are appended to their metrics' chunks.  (A
\* cycle that finds the queue empty returns without changing anything;
\* WriteAheadLog::checkpoint only flushes the stream.)
Flush ==
    LET out == flushWriteBuffer(activeChunks_, metricChunks_, chunkFiles,
                                writeBuffer_)
    IN /\ running_
       /\ writeBuffer_ # <<>>
       /\ activeChunks_' = out.active
       /\ metricChunks_' = out.sealed
       /\ chunkFiles' = out.files
       /\ writeBuffer_' = <<>>
       /\ flushedAny' = TRUE
       /\ reopened' = <<>>
       /\ UNCHANGED <<running_, metrics_, sequenceNumber_, walFile,
                      metadataFile, nextId, sessionWrites, deletedAny,
                      delSession, delRestart, endKind, everVars, sideVars>>

\* TimeSeriesDatabase::Impl::deleteMetric(metric).
deleteMetric(metric) ==
    /\ running_
    /\ metrics_' = metrics_ \ {metric}
    /\ metricChunks_' = MapErase(metricChunks_, metric)
    /\ activeChunks_' = MapErase(activeChunks_, metric)
    /\ chunkFiles' = deleteChunks(chunkFiles, metric)
    /\ metadataFile' = saveMetadata(metrics_', metricChunks_')
    /\ sessionWrites' = {p \in sessionWrites : p.metric # metric}
    /\ deletedAny' = TRUE
    /\ delSession' = delSession \cup {metric}
    /\ reopened' = <<>>
    /\ acked' = {p \in acked : p.metric # metric}
    /\ crashOnly' = FALSE
    /\ UNCHANGED <<running_, writeBuffer_, sequenceNumber_, walFile, nextId,
                   flushedAny, delRestart, endKind, sideVars>>

\* TimeSeriesDatabase::Impl::write(point) while wal.log cannot be written:
\* WriteAheadLog::append returns normally, so write goes on to push the
\* point on the ingress queue and returns normally too.
write_walFails(pt) ==
    LET point == Stamp(pt, nextId + 1)
        log == writeEntryToFile_failing(
                   [file |-> walFile, seq |-> sequenceNumber_], point)
    IN /\ running_
       /\ nextId + 1 <= MaxWrites
       /\ metrics_' = metrics_ \cup {point.metric}
       /\ walFile' = log.file
       /\ sequenceNumber_' = log.seq
       /\ writeBuffer_' = Append(writeBuffer_, point)
       /\ nextId' = nextId + 1
       /\ sessionWrites' = sessionWrites \cup {point}
       /\ delSession' = delSession \ {point.metric}
       /\ delRestart' = delRestart \ {point.metric}
       /\ reopened' = <<>>
       /\ acked' = acked \cup {point}
       /\ UNCHANGED <<running_, activeChunks_, metricChunks_, chunkFiles,
                      metadataFile, flushedAny, deletedAny, endKind,
                      crashOnly, sideVars>>

\* The memory of the process is gone.
MemoryLost ==
    /\ running_' = FALSE
    /\ metrics_' = {}
    /\ activeChunks_' = EmptyMap
    /\ metricChunks_' = EmptyMap
    /\ writeBuffer_' = <<>>
    /\ sequenceNumber_' = 0

\* The process dies between two operations: the directory stays as it is.
Crash ==
    /\ running_
    /\ MemoryLost
    /\ endKind' = "crash"
    /\ delSession' = {}
    /\ delRestart' = {}
    /\ reopened' = <<>>
    /\ UNCHANGED <<diskVars, nextId, sessionWrites, flushedAny, deletedAny,
                   everVars, sideVars>>

\* One cycle of flushLoop that has a chunk to seal while chunk files cannot
\* be created: ColumnarStorageManager::saveChunk throws std::runtime_error;
\* neither flushWriteBuffer nor flushLoop catches it, so it leaves the
\* thread function and std::terminate ends the process.  No file was
\* written.
Flush_saveChunkFails ==
    LET out == flushWriteBuffer(activeChunks_, metricChunks_, chunkFiles,
                                writeBuffer_)
    IN /\ running_
       /\ writeBuffer_ # <<>>
       /\ out.files # chunkFiles
       /\ MemoryLost
       /\ endKind' = "terminated"
       /\ delSession' = {}
       /\ delRestart' = {}
       /\ reopened' = <<>>
       /\ UNCHANGED <<diskVars, nextId, sessionWrites, flushedAny,
                      deletedAny, everVars, sideVars>>

\* TimeSeriesDatabase::Impl::~Impl: the flusher is joined, then the final
\* flush, saveActiveChunks and saveMetadata.
CleanClose ==
    LET flushed == flushWriteBuffer(activeChunks_, metricChunks_,
                                    chunkFiles, writeBuffer_)
        saved == saveActiveChunks(flushed.active, flushed.sealed,
                                  flushed.files)
    IN /\ running_
       /\ MemoryLost
       /\ chunkFiles' = saved.files
       /\ metadataFile' = saveMetadata(metrics_, saved.sealed)
       /\ endKind' = "clean"
       /\ delRestart' = delRestart \cup delSession
       /\ delSession' = {}
       /\ reopened' = <<>>
       /\ crashOnly' = FALSE
       /\ UNCHANGED <<walFile, nextId, sessionWrites, flushedAny,
                      deletedAny, acked, sideVars>>

\* TimeSeriesDatabase::Impl::Impl on the directory as it is: loadMetadata;
\* then, when no chunk was loaded, the WAL is replayed through the ingress
\* queue and a flush, and cleared if it held records; when chunks were
\* loaded, the WAL is cleared without being read.
Reopen ==
    LET loaded == loadMetadata(metadataFile, chunkFiles)
        existing == hasExistingData(EmptyMap, loaded.sealed)
        recoveredPoints == recover(walFile)
        replay == ~existing /\ recoveredPoints # <<>>
        out == flushWriteBuffer(EmptyMap, loaded.sealed, chunkFiles,
                                recoveredPoints)
    IN /\ ~running_
       /\ running_' = TRUE
       /\ writeBuffer_' = <<>>
       /\ metrics_' = IF replay
                      THEN loaded.metrics \cup MetricsOf(recoveredPoints)
                      ELSE loaded.metrics
       /\ activeChunks_' = IF replay THEN out.active ELSE EmptyMap
       /\ metricChunks_' = IF replay THEN out.sealed ELSE loaded.sealed
       /\ chunkFiles' = IF replay THEN out.files ELSE chunkFiles
       /\ walFile' = IF existing \/ replay THEN <<>> ELSE walFile
       /\ sequenceNumber_' =
              IF existing \/ replay THEN 0
              ELSE SequenceAfterRecover(walFile, sequenceNumber_)
       /\ sessionWrites' = {}
       /\ flushedAny' = FALSE
       /\ deletedAny' = FALSE
       /\ endKind' = "none"
       /\ reopened' = <<[writes |-> sessionWrites, flushed |-> flushedAny,
                         deleted |-> deletedAny, end |-> endKind]>>
       /\ UNCHANGED <<metadataFile, nextId, delSession, delRestart,
                      everVars, sideVars>>

\* Batches of two points.
Batches(points) == {<<p, q>> : p \in points, q \in points}

\* The whole life cycle of a database directory.
Next ==
    \/ \E pt \in LifePoints : write(pt)
    \/ \E pts \in Batches(LifePoints) : writeBatch(pts)
    \/ Flush
    \/ \E metric \in {CPU, CPU_USER} : deleteMetric(metric)
    \/ Crash
    \/ CleanClose
    \/ Reopen

Spec == Init /\ [][Next]_vars

\* One session of one metric, with points of several values and tag maps.
QueryNext ==
    \/ \E pt \in QueryPoints : write(pt)
    \/ \E pts \in Batches(QueryPoints) : writeBatch(pts)
    \/ Flush

QuerySpec == Init /\ [][QueryNext]_vars

\* One session of one metric, with values at the ends of the range of
\* double and a tag value longer than MaxTagLength.
ExtremePoints ==
    [timestamp : Timestamps, metric : {CPU}, value : ExtremeValues,
     tags : {NoTags}]
        \cup [timestamp : {10}, metric : {CPU}, value : {1},
               tags : {HostLong}]

ExtremeNext ==
    \/ \E pt \in ExtremePoints : write(pt)
    \/ Flush

ExtremeSpec == Init /\ [][ExtremeNext]_vars

\* Sessions in which wal.log may refuse a write and the directory may
\* refuse a new chunk file.
FaultNext ==
    \/ \E pt \in LifePoints : write(pt)
    \/ \E pt \in LifePoints : write_walFails(pt)
    \/ Flush
    \/ Flush_saveChunkFails
    \/ Reopen

FaultSpec == Init /\ [][FaultNext]_vars

\* The ingress queue by itself: MaxProducers producers, each pushing
\* MaxPush items, and the one consumer.
QueueNext ==
    \/ \E p \in Producers : push_exchange(p)
    \/ \E p \in Producers : push_link(p)
    \/ Pop

QueueSpec == Init /\ [][QueueNext]_vars

\* Sessions of one metric that end by the death of the process, with points
\* whose tag value is longer than parseEntry accepts.
WalPoints ==
    [timestamp : {10}, metric : {CPU}, value : {1},
     tags : {NoTags, HostLong}]

WalNext ==
    \/ \E pt \in WalPoints : write(pt)
    \/ \E pts \in Batches(WalPoints) : writeBatch(pts)
    \/ Flush
    \/ Crash
    \/ Reopen

WalSpec == Init /\ [][WalNext]_vars

\* WriteAheadLog::recover by itself: a log is built in walFile from entries
\* that parseEntry accepts, one damaged or invalid entry and again entries
\* that parseEntry accepts, and is then read.
LogPoints ==
    [timestamp : {10}, metric : {CPU, CPU_USER}, value : {1},
     tags : {NoTags, HostA}]

\* A metric name one character longer than MaxMetricLength, a tag key one
\* character longer than MaxTagLength, and a tag map of MaxTagCount + 1
\* pairs.
LongMetric == <<Repeat("m", MaxMetricLength + 1)>>
KeyLong == [k \in {LongText} |-> "a"]
ManyTags == [k \in {Repeat("k", i) : i \in 1..(MaxTagCount + 1)} |-> "v"]

\* Points writeEntryToFile writes and parseEntry rejects, by the check that
\* rejects them.
OversizedPoints ==
    [metricLen |-> [timestamp |-> 10, metric |-> LongMetric, value |-> 1,
                    tags |-> NoTags],
     tagCount |-> [timestamp |-> 10, metric |-> CPU, value |-> 1,
                   tags |-> ManyTags],
     keyLen |-> [timestamp |-> 10, metric |-> CPU, value |-> 1,
                 tags |-> KeyLong],
     valueLen |-> [timestamp |-> 10, metric |-> CPU, value |-> 1,
                   tags |-> HostLong]]

\* An entry size larger than any log built here.
PastTheEnd == 1000000

\* The entry of a point with one tag, as the next append would write it.
TornSource(sequence) ==
    EncodeEntry(sequence,
                Stamp([timestamp |-> 20, metric |-> CPU, value |-> 3,
                       tags |-> HostA], 0))

\* An entry of which only the first cells whole cells reached the file,
\* followed, where half is TRUE, by the first half of the next field.
CutEntry(entry, cells, half) ==
    SubSeq(entry, 1, cells)
        \o (IF half
            THEN <<Cell("cut", entry[cells + 1].n \div 2, <<>>)>>
            ELSE <<>>)

\* What may follow the valid entries of a log: [kind, cells].  A torn
\* entry (a strict, non-empty prefix of its bytes), an entry whose size
\* field is zero, one whose size field reaches past the end of the file,
\* and the entries of the oversized points.
BadEntries(sequence) ==
    LET entry == TornSource(sequence)
    IN {[kind |-> "torn", cells |-> CutEntry(entry, k, half)] :
            <<k, half>> \in
                {c \in (0..(Len(entry) - 1)) \X BOOLEAN :
                    /\ c[2] => entry[c[1] + 1].n \div 2 > 0
                    /\ c[1] > 0 \/ c[2]}}
        \cup {[kind |-> "entrySize zero",
               cells |-> <<Cell("entrySize", 4, 0)>> \o Tail(entry)]}
        \cup {[kind |-> "entrySize past the end",
               cells |-> <<Cell("entrySize", 4, PastTheEnd)>>
                             \o Tail(entry)]}
        \cup {[kind |-> check,
               cells |-> EncodeEntry(sequence,
                                     Stamp(OversizedPoints[check], 0))] :
                  check \in DOMAIN OversizedPoints}

\* WriteAheadLog::append(point) on the log under construction.  A torn
\* entry is where the file ends: nothing is appended after one.
wal_append(pt) ==
    LET point == Stamp(pt, nextId + 1)
        log == writeEntryToFile([file |-> walFile, seq |-> sequenceNumber_],
                                point)
    IN /\ recovered = <<>>
       /\ logDamaged # "torn"
       /\ nextId + 1 <= MaxWrites
       /\ walFile' = log.file
       /\ sequenceNumber_' = log.seq
       /\ nextId' = nextId + 1
       /\ logValid' = IF logDamaged = "no" THEN Append(logValid, point)
                      ELSE logValid
       /\ UNCHANGED <<running_, metrics_, activeChunks_, metricChunks_,
                      writeBuffer_, chunkFiles, metadataFile, sessionWrites,
                      flushedAny, deletedAny, delSession, delRestart,
                      endKind, reopened, everVars, queueVars, logDamaged,
                      recovered, codecVars, dirVars, chunkVars,
                      moreVars>>

\* A damaged or invalid entry gets into the log, once.
wal_damage ==
    /\ recovered = <<>>
    /\ logDamaged = "no"
    /\ \E bad \in BadEntries(sequenceNumber_) :
           /\ walFile' = walFile \o bad.cells
           /\ logDamaged' = bad.kind
    /\ sequenceNumber_' = sequenceNumber_ + 1
    /\ UNCHANGED <<running_, metrics_, activeChunks_, metricChunks_,
                   writeBuffer_, chunkFiles, metadataFile, histVars,
                   everVars, queueVars, logValid, recovered, codecVars,
                   dirVars, chunkVars, moreVars>>

\* WriteAheadLog::recover() on the log.
wal_recover ==
    /\ recovered = <<>>
    /\ recovered' = <<recover(walFile)>>
    /\ sequenceNumber_' = SequenceAfterRecover(walFile, sequenceNumber_)
    /\ UNCHANGED <<running_, metrics_, activeChunks_, metricChunks_,
                   writeBuffer_, diskVars, histVars, everVars, queueVars,
                   logValid, logDamaged, codecVars, dirVars, chunkVars,
                   moreVars>>

RecoverNext ==
    \/ \E pt \in LogPoints : wal_append(pt)
    \/ wal_damage
    \/ wal_recover

RecoverSpec == Init /\ [][RecoverNext]_vars

(***************************************************************************)
(* The codecs (compression.cpp).                                           *)
(*                                                                         *)
(* Integers keep their widths in bytes; a byte has ByteBits bits, so that  *)
(* a 64-bit integer has 8 * ByteBits bits and its arithmetic wraps just as *)
(* in the build, on numbers the checker can hold.                          *)
(***************************************************************************)
ByteBits == 2

RECURSIVE Pow2(_)
Pow2(n) == IF n = 0 THEN 1 ELSE 2 * Pow2(n - 1)

\* The number of values of an unsigned integer of the given size, and the
\* largest and smallest value of a signed one.
Modulus(bytes) == Pow2(bytes * ByteBits)
SignedMax(bytes) == Modulus(bytes) \div 2 - 1
SignedMin(bytes) == 0 - Modulus(bytes) \div 2

INT8_MAX == SignedMax(1)
INT16_MAX == SignedMax(2)
INT32_MAX == SignedMax(4)
INT64_MIN == SignedMin(8)
UINT16_MAX == Modulus(2) - 1

\* The conversion of x to a signed integer of the given size (static_cast,
\* and the initialisation of an int64_t from a uint64_t difference).
AsSigned(x, bytes) ==
    LET low == x % Modulus(bytes)
    IN IF low > SignedMax(bytes) THEN low - Modulus(bytes) ELSE low

\* memcpy of the low bytes of x into the vector: the given number of
\* bytes, least significant first.
ToBytes(x, bytes) ==
    [i \in 1..bytes |->
        ((x % Modulus(bytes)) \div Pow2((i - 1) * ByteBits))
            % Pow2(ByteBits)]

\* memcpy of bytes into an unsigned integer of their number.
FromBytes(b) ==
    SumSeq([i \in 1..Len(b) |-> b[i] * Pow2((i - 1) * ByteBits)])

\* The largest element of a non-empty set of integers.
MaxOfSet(set) == CHOOSE m \in set : \A x \in set : x <= m

\* What a build makes of std::abs(INT64_MIN), which is undefined: the
\* negation wraps to INT64_MIN, or the build traps on the overflow.
AbsOverflows == {"wraps", "traps"}

\* The result of an encoder call that trapped.
Trapped == [trapped |-> TRUE]

\* DeltaEncoding::compressTimestamps.  The vector returned is <<>> for no
\* timestamps, else the record of its parts: the first timestamp, the
\* count, the width byte and the bytes of the deltas.
compressTimestamps(timestamps, absOverflow) ==
    LET count == Len(timestamps)
        deltas == [i \in 1..(count - 1) |->
                      AsSigned(timestamps[i + 1] - timestamps[i], 8)]
        Abs(delta) == IF delta = INT64_MIN THEN INT64_MIN
                      ELSE IF delta < 0 THEN 0 - delta ELSE delta
        maxDelta == MaxOfSet({0} \cup {Abs(deltas[i]) : i \in 1..(count - 1)})
        bytesPerDelta == IF maxDelta > INT32_MAX THEN 8
                         ELSE IF maxDelta > INT16_MAX THEN 4
                         ELSE IF maxDelta > INT8_MAX THEN 2
                         ELSE 1
    IN IF count = 0 THEN <<>>
       ELSE IF absOverflow = "traps"
                   /\ \E i \in 1..(count - 1) : deltas[i] = INT64_MIN
            THEN Trapped
       ELSE [first |-> timestamps[1], count |-> count,
             bytesPerDelta |-> bytesPerDelta,
             payload |-> ConcatAll([i \in 1..(count - 1) |->
                                       ToBytes(deltas[i], bytesPerDelta)])]

\* What a read past the end of the vector handed to a decoder finds: some
\* byte, the same for every position, or memory that cannot be read.
Segfault == 0 - 1
BeyondTheEnd == (0..(Pow2(ByteBits) - 1)) \cup {Segfault}

\* The outcome of a decoder call: [crashed, error, result].  error names
\* the failure the call reported; the decoders have no statement that
\* reports one.
Returned(result) == [crashed |-> FALSE, error |-> "none", result |-> result]
Crashed == [crashed |-> TRUE, error |-> "none", result |-> <<>>]

\* DeltaEncoding::decompressTimestamps on the vector data; beyond is what
\* lies past its end.  A width byte other than 1, 2, 4, 8 matches no case
\* of the switch: the delta stays 0 and ptr does not move.
decompressTimestamps(data, beyond) ==
    LET width == IF data.bytesPerDelta \in {1, 2, 4, 8}
                 THEN data.bytesPerDelta ELSE 0
        needed == (data.count - 1) * width
        ByteAt(pos) == IF pos <= Len(data.payload) THEN data.payload[pos]
                       ELSE beyond
        delta(i) ==
            IF width = 0 THEN 0
            ELSE AsSigned(FromBytes([k \in 1..width |->
                                        ByteAt((i - 1) * width + k)]),
                          width)
        current(k) ==
            (data.first + SumSeq([i \in 1..(k - 1) |-> delta(i)]))
                % Modulus(8)
    IN IF data = <<>> THEN Returned(<<>>)
       ELSE IF needed > Len(data.payload) /\ beyond = Segfault THEN Crashed
       ELSE Returned([k \in 1..Max(data.count, 1) |-> current(k)])

\* A double of the codec: <<sign bit, magnitude>>.  operator== holds
\* between equal doubles and between the two zeros.
PlusZero == <<0, 0>>
MinusZero == <<1, 0>>
One == <<0, 1>>
DoubleEq(a, b) == a = b \/ (a[2] = 0 /\ b[2] = 0)

\* The inner loop of compressDoubles: the length of the run that starts at
\* position i, at most UINT16_MAX.
RunLengthAt(values, i) ==
    MaxOfSet({r \in 1..Min(UINT16_MAX, Len(values) - i + 1) :
                 \A j \in 1..(r - 1) : DoubleEq(values[i + j], values[i])})

\* The outer loop of compressDoubles from position i on: the (run length,
\* value) pairs.
RECURSIVE RunsFrom(_, _)
RunsFrom(values, i) ==
    IF i > Len(values) THEN <<>>
    ELSE <<[runLength |-> RunLengthAt(values, i) % Modulus(2),
            value |-> values[i]]>>
             \o RunsFrom(values, i + RunLengthAt(values, i))

\* RunLengthEncoding::compressDoubles: <<>> for no values, else the count
\* and the runs.
compressDoubles(values) ==
    IF Len(values) = 0 THEN <<>>
    ELSE [count |-> Len(values), runs |-> RunsFrom(values, 1)]

\* The loop of decompressDoubles: runs are replayed while the result is
\* shorter than count and runs are left.
RECURSIVE ReplayRuns(_, _, _)
ReplayRuns(runs, count, result) ==
    IF ~(Len(result) < count /\ runs # <<>>) THEN result
    ELSE ReplayRuns(Tail(runs), count,
                    result \o [i \in 1..Head(runs).runLength |->
                                  Head(runs).value])

\* RunLengthEncoding::decompressDoubles.
decompressDoubles(data) ==
    IF data = <<>> THEN Returned(<<>>)
    ELSE Returned(ReplayRuns(data.runs, data.count, <<>>))

\* The timestamp arrays and value arrays handed to the encoders: up to
\* MaxArray timestamps around the limits of the delta widths, and up to two
\* runs of values around the run-length limit.
MaxArray == 3

TimestampValues ==
    {0, 1, INT8_MAX + 1, INT16_MAX + 1, INT32_MAX + 1, Modulus(8) \div 2,
     Modulus(8) - 1}

TimestampArrays == UNION {[1..n -> TimestampValues] : n \in 0..MaxArray}

Run(value, n) == [i \in 1..n |-> value]

DoubleArrays ==
    {Run(v, n) \o Run(w, m) :
        <<v, n, w, m>> \in
            {PlusZero, MinusZero, One} \X {0, 1, UINT16_MAX, UINT16_MAX + 1}
                \X {PlusZero, MinusZero, One} \X {0, 1, 2}}

\* Vectors no encoder returns: a width byte of 3; a count that needs two
\* delta bytes over a payload of one; runs that give fewer, and runs that
\* give more, values than the count.
MalformedTimestamps ==
    {[first |-> 1, count |-> 2, bytesPerDelta |-> 3, payload |-> <<1, 0, 0>>],
     [first |-> 1, count |-> 3, bytesPerDelta |-> 1, payload |-> <<1>>]}

MalformedDoubles ==
    {[count |-> 3, runs |-> <<[runLength |-> 2, value |-> One]>>],
     [count |-> 1, runs |-> <<[runLength |-> 2, value |-> One]>>]}

\* The variables the codec calls leave alone.
CodecFrame ==
    UNCHANGED <<memVars, diskVars, histVars, everVars, queueVars, logVars,
                dirVars, chunkVars, moreVars>>

\* A call of compressTimestamps.
call_compressTimestamps ==
    /\ codecInput = <<>>
    /\ \E timestamps \in TimestampArrays, absOverflow \in AbsOverflows :
           /\ codecInput' = [kind |-> "timestamps", malformed |-> FALSE,
                             array |-> timestamps]
           /\ codecData' = compressTimestamps(timestamps, absOverflow)
    /\ UNCHANGED codecOutput
    /\ CodecFrame

\* A call of compressDoubles.
call_compressDoubles ==
    /\ codecInput = <<>>
    /\ \E values \in DoubleArrays :
           /\ codecInput' = [kind |-> "doubles", malformed |-> FALSE,
                             array |-> values]
           /\ codecData' = compressDoubles(values)
    /\ UNCHANGED codecOutput
    /\ CodecFrame

\* A vector that no encoder returned arrives.
receive_malformed ==
    /\ codecInput = <<>>
    /\ \/ /\ codecData' \in MalformedTimestamps
          /\ codecInput' = [kind |-> "timestamps", malformed |-> TRUE,
                            array |-> <<>>]
       \/ /\ codecData' \in MalformedDoubles
          /\ codecInput' = [kind |-> "doubles", malformed |-> TRUE,
                            array |-> <<>>]
    /\ UNCHANGED codecOutput
    /\ CodecFrame

\* A call of decompressTimestamps on the vector.
call_decompressTimestamps ==
    /\ codecInput # <<>>
    /\ codecInput.kind = "timestamps"
    /\ codecData # Trapped
    /\ codecOutput = <<>>
    /\ \E beyond \in BeyondTheEnd :
           codecOutput' = <<decompressTimestamps(codecData, beyond)>>
    /\ UNCHANGED <<codecInput, codecData>>
    /\ CodecFrame

\* A call of decompressDoubles on the vector.
call_decompressDoubles ==
    /\ codecInput # <<>>
    /\ codecInput.kind = "doubles"
    /\ codecOutput = <<>>
    /\ codecOutput' = <<decompressDoubles(codecData)>>
    /\ UNCHANGED <<codecInput, codecData>>
    /\ CodecFrame

CodecNext ==
    \/ call_compressTimestamps
    \/ call_compressDoubles
    \/ receive_malformed
    \/ call_decompressTimestamps
    \/ call_decompressDoubles

CodecSpec == Init /\ [][CodecNext]_vars

(***************************************************************************)
(* destroy() and the destructor after it (waffledb.cpp).                   *)
(***************************************************************************)
\* std::ofstream file(path) on a path inside the database directory: the
\* stream opens, creating the file, only when the directory exists.
ofstreamOpens_creating(exists) == TRUE

ofstreamOpens(exists) == exists

\* std::filesystem::remove_all(dbPath_): the directory and what it held are
\* gone.
remove_all ==
    [exists |-> FALSE, wal |-> <<>>, chunks |-> EmptyMap,
     metadata |-> NoFile]

\* TimeSeriesDatabase::Impl::destroy: the flusher is joined, the final
\* flush, saveActiveChunks and saveMetadata run, the WAL and the storage
\* manager are released, the chunk tables are cleared (metrics_ is not) and
\* the directory is removed with all that was just saved in it.
destroy ==
    LET flushed == flushWriteBuffer(activeChunks_, metricChunks_,
                                    chunkFiles, writeBuffer_)
        saved == saveActiveChunks(flushed.active, flushed.sealed,
                                  flushed.files)
        written == [exists |-> dirExists, wal |-> walFile,
                    chunks |-> saved.files,
                    metadata |-> IF ofstreamOpens(dirExists)
                                 THEN saveMetadata(metrics_, saved.sealed)
                                 ELSE metadataFile]
        removed == IF written.exists THEN remove_all ELSE written
    IN /\ running_
       /\ destroyed = "no"
       /\ running_' = FALSE
       /\ writeBuffer_' = <<>>
       /\ sequenceNumber_' = 0
       /\ metricChunks_' = EmptyMap
       /\ activeChunks_' = EmptyMap
       /\ dirExists' = removed.exists
       /\ walFile' = removed.wal
       /\ chunkFiles' = removed.chunks
       /\ metadataFile' = removed.metadata
       /\ destroyed' = "destroyed"
       /\ sessionWrites' = {}
       /\ acked' = {}
       /\ crashOnly' = FALSE
       /\ reopened' = <<>>
       /\ UNCHANGED <<metrics_, nextId, flushedAny, deletedAny, delSession,
                      delRestart, endKind, queueVars, logVars, codecVars,
                      chunkVars, moreVars>>

\* TimeSeriesDatabase::Impl::~Impl on an object whose destroy() returned:
\* the final flush finds the ingress queue empty and returns,
\* saveActiveChunks finds no active chunk, and saveMetadata writes
\* metadata.txt if its stream opens.
Impl_destructor_afterDestroy ==
    LET flushed == flushWriteBuffer(activeChunks_, metricChunks_,
                                    chunkFiles, writeBuffer_)
        saved == saveActiveChunks(flushed.active, flushed.sealed,
                                  flushed.files)
    IN /\ destroyed = "destroyed"
       /\ MemoryLost
       /\ chunkFiles' = saved.files
       /\ metadataFile' = IF ofstreamOpens(dirExists)
                          THEN saveMetadata(metrics_, saved.sealed)
                          ELSE metadataFile
       /\ destroyed' = "destructed"
       /\ endKind' = "clean"
       /\ delSession' = {}
       /\ delRestart' = {}
       /\ reopened' = <<>>
       /\ UNCHANGED <<walFile, dirExists, nextId, sessionWrites, flushedAny,
                      deletedAny, everVars, queueVars, logVars, codecVars,
                      chunkVars, moreVars>>

\* Sessions that end by destroy() and the destructor.
DestroyNext ==
    \/ \E pt \in LifePoints : write(pt)
    \/ \E pts \in Batches(LifePoints) : writeBatch(pts)
    \/ Flush
    \/ \E metric \in {CPU, CPU_USER} : deleteMetric(metric)
    \/ destroy
    \/ Impl_destructor_afterDestroy

DestroySpec == Init /\ [][DestroyNext]_vars

(***************************************************************************)
(* One ColumnarChunk by itself, beside the flusher that fills chunks       *)
(* (columnar_storage.cpp, waffledb.cpp).                                   *)
(***************************************************************************)
\* The rows appended to the chunk.
ChunkPoints ==
    [timestamp : {0, 10, UINT64_MAX}, metric : {CPU}, value : {1},
     tags : {NoTags}]

\* ColumnarChunk::append(timestamp, value, tags) on the chunk: it throws on
\* a full chunk and appends the row otherwise.
chunk_append(pt) ==
    /\ chunkBefore' = oneChunk
    /\ IF appendThrows(oneChunk)
       THEN /\ oneChunk' = oneChunk
            /\ chunkCall' = "threw"
       ELSE /\ oneChunk' = append(oneChunk, Stamp(pt, oneChunk.count_ + 1))
            /\ chunkCall' = "returned"
    /\ UNCHANGED <<memVars, diskVars, histVars, everVars, queueVars,
                   logVars, codecVars, dirVars, moreVars>>

ChunkNext ==
    \/ \E pt \in ChunkPoints : chunk_append(pt)
    \/ \E pt \in LifePoints : write(pt)
    \/ \E pts \in Batches(LifePoints) : writeBatch(pts)
    \/ Flush

ChunkSpec == Init /\ [][ChunkNext]_vars

\* Sessions of one metric that end by the destructor, with points whose tag
\* value is longer than deserialize accepts, so that a reopen meets chunk
\* files that loadChunk rejects.
DenseNext ==
    \/ \E pt \in WalPoints : write(pt)
    \/ Flush
    \/ CleanClose
    \/ Reopen

DenseSpec == Init /\ [][DenseNext]_vars

(***************************************************************************)
(* Client queries beside the flusher (waffledb.cpp).  query and            *)
(* flushWriteBuffer both hold chunksMutex_ from their first access to the  *)
(* chunk tables to their return, so each is one step.                      *)
(***************************************************************************)
\* The points clients write and the tag filters they query with.
VisiblePoints ==
    [timestamp : Timestamps, metric : {CPU}, value : {1},
     tags : {NoTags, HostA}]
VisibleFilters == {NoTags, HostA}

\* A client calls query(metric, start_time, end_time, tags) and gets its
\* result.
client_query(metric, start_time, end_time, tags) ==
    /\ running_
    /\ returned' = returned
           \cup Range(query(metric, start_time, end_time, tags))
    /\ UNCHANGED <<memVars, diskVars, histVars, everVars, queueVars,
                   logVars, codecVars, dirVars, chunkVars, lockVars,
                   shutVars, msVars>>

VisibleNext ==
    \/ \E pt \in VisiblePoints : write(pt)
    \/ Flush
    \/ \E r \in Ranges : \E T \in VisibleFilters :
           client_query(CPU, r[1], r[2], T)

VisibleSpec == Init /\ [][VisibleNext]_vars

(***************************************************************************)
(* The locks of the engine (waffledb.cpp, wal.cpp, adaptive_index.cpp):    *)
(* every operation as the sequence of its std::lock_guard constructions    *)
(* and scope ends.                                                         *)
(***************************************************************************)
Lock(m) == [do |-> "lock", mutex |-> m]
Unlock(m) == [do |-> "unlock", mutex |-> m]

\* One block { std::lock_guard<std::mutex> lock(m); ... }.
Block(m) == <<Lock(m), Unlock(m)>>

\* saveMetadata: the metrics block, then the chunks block.
SaveMetadataLocks == Block("metricsMutex_") \o Block("chunksMutex_")

\* deleteMetric that calls saveMetadata inside its metrics block.
DeleteMetricLocks_nestedSave ==
    <<Lock("metricsMutex_")>> \o SaveMetadataLocks
        \o <<Unlock("metricsMutex_")>>

\* deleteMetric: the metrics block, the chunks block, then (after
\* deleteChunks, which takes no lock) saveMetadata.
DeleteMetricLocks ==
    Block("metricsMutex_") \o Block("chunksMutex_") \o SaveMetadataLocks

\* The lock steps of each operation.  write and writeBatch: the metrics
\* block, then WriteAheadLog::append / appendBatch under writeMutex_ (the
\* push on the ingress queue takes no lock).  query, sum, avg, min and max:
\* chunksMutex_ for the whole body.  A flush cycle that drained a point:
\* chunksMutex_ from the grouping to the return, inside it
\* AdaptiveIndex::addChunk under mutex_ when a chunk is sealed, and
\* WriteAheadLog::checkpoint under writeMutex_ at the end.
LockProgram(op) ==
    CASE op \in {"write", "writeBatch"} ->
             Block("metricsMutex_") \o Block("writeMutex_")
      [] op \in {"query", "sum", "avg", "min", "max"} ->
             Block("chunksMutex_")
      [] op = "getMetrics" -> Block("metricsMutex_")
      [] op = "deleteMetric" -> DeleteMetricLocks
      [] op = "flush" ->
             <<Lock("chunksMutex_")>> \o Block("writeMutex_")
                 \o <<Unlock("chunksMutex_")>>
      [] op = "flush_seal" ->
             <<Lock("chunksMutex_")>> \o Block("mutex_")
                 \o Block("writeMutex_") \o <<Unlock("chunksMutex_")>>

\* The operations a thread runs.
ClientOps ==
    {"write", "writeBatch", "query", "sum", "avg", "min", "max",
     "getMetrics", "deleteMetric"}
OpsOf(t) == IF t = Flusher THEN {"flush", "flush_seal"} ELSE ClientOps

\* The lock step thread t stands before.
StepOf(t) == LockProgram(at[t].op)[at[t].pc]

\* The thread after its step: before the next one, or out of the call.
Advance(t) ==
    IF at[t].pc = Len(LockProgram(at[t].op)) THEN NotInCall
    ELSE [op |-> at[t].op, pc |-> at[t].pc + 1]

LockFrame ==
    UNCHANGED <<memVars, diskVars, histVars, everVars, queueVars, logVars,
                codecVars, dirVars, chunkVars, seenVars, shutVars,
                msVars>>

\* Thread t enters operation op.
call(t, op) ==
    /\ at[t] = NotInCall
    /\ at' = [at EXCEPT ![t] = [op |-> op, pc |-> 1]]
    /\ UNCHANGED holder
    /\ LockFrame

\* std::lock_guard constructor: std::mutex::lock returns once no thread
\* holds the mutex.
lock(t) ==
    /\ at[t] # NotInCall
    /\ StepOf(t).do = "lock"
    /\ holder[StepOf(t).mutex] = NoThread
    /\ holder' = [holder EXCEPT ![StepOf(t).mutex] = t]
    /\ at' = [at EXCEPT ![t] = Advance(t)]
    /\ LockFrame

\* std::lock_guard destructor.
unlock(t) ==
    /\ at[t] # NotInCall
    /\ StepOf(t).do = "unlock"
    /\ holder' = [holder EXCEPT ![StepOf(t).mutex] = NoThread]
    /\ at' = [at EXCEPT ![t] = Advance(t)]
    /\ LockFrame

LockNext ==
    \/ \E t \in Threads : \E op \in OpsOf(t) : call(t, op)
    \/ \E t \in Threads : lock(t)
    \/ \E t \in Threads : unlock(t)

LockSpec == Init /\ [][LockNext]_vars

(***************************************************************************)
(* The threads that drain the ingress queue (waffledb.cpp): the            *)
(* constructor, flushLoop, and the shutdown by ~Impl or destroy().  The    *)
(* atomic flag the flusher reads is true exactly while the owner stands at *)
(* "live"; the engine variable running_ goes FALSE with the last step of   *)
(* the shutdown.                                                           *)
(***************************************************************************)
\* A flag that is never read as false.
RunningFlag_alwaysTrue == TRUE

\* std::atomic<bool> running_ as flushLoop reads it.
RunningFlag == mainAt = "live"

\* A shutdown that goes on without waiting for the flusher.
Joined_withoutWaiting(where) == TRUE

\* flushThread_.join() returns once the thread function has returned.
Joined(where) == where = "exited"

ShutFrame ==
    UNCHANGED <<memVars, diskVars, histVars, everVars, queueVars, logVars,
                codecVars, dirVars, chunkVars, seenVars, lockVars,
                msVars>>

\* flushLoop: the test of while (running_).
flusher_while ==
    /\ running_
    /\ flusherAt = "while"
    /\ flusherAt' = IF RunningFlag THEN "sleep" ELSE "exited"
    /\ UNCHANGED <<mainAt, stopKind, poppers, beforeFinal>>
    /\ ShutFrame

\* flushLoop: the sleep ends, and with if (running_) true the thread enters
\* flushWriteBuffer.
flusher_wake ==
    /\ running_
    /\ flusherAt = "sleep"
    /\ flusherAt' = IF RunningFlag THEN "flush" ELSE "while"
    /\ poppers' = IF RunningFlag THEN poppers \cup {Flusher} ELSE poppers
    /\ UNCHANGED <<mainAt, stopKind, beforeFinal>>
    /\ ShutFrame

\* The flusher inside flushWriteBuffer drains the points it finds and
\* appends them to the chunks.
flusher_flush ==
    /\ flusherAt = "flush"
    /\ Flush

\* The flusher finds the queue empty and returns from flushWriteBuffer.
flusher_return ==
    /\ running_
    /\ flusherAt = "flush"
    /\ writeBuffer_ = <<>>
    /\ flusherAt' = "while"
    /\ poppers' = poppers \ {Flusher}
    /\ UNCHANGED <<mainAt, stopKind, beforeFinal>>
    /\ ShutFrame

\* A client writes while the object is in use.
client_write(pt) ==
    /\ mainAt = "live"
    /\ write(pt)

\* ~Impl or destroy(): running_ = false.
stop(kind) ==
    /\ running_
    /\ mainAt = "live"
    /\ mainAt' = "join"
    /\ stopKind' = kind
    /\ UNCHANGED <<flusherAt, poppers, beforeFinal>>
    /\ ShutFrame

\* flushThread_.join() returns and the owner enters the final
\* flushWriteBuffer.
join ==
    /\ running_
    /\ mainAt = "join"
    /\ Joined(flusherAt)
    /\ mainAt' = "final"
    /\ poppers' = poppers \cup {Main}
    /\ beforeFinal' = [active |-> activeChunks_, sealed |-> metricChunks_,
                       files |-> chunkFiles, queue |-> writeBuffer_]
    /\ UNCHANGED <<flusherAt, stopKind>>
    /\ ShutFrame

\* The rest of ~Impl: final flush, saveActiveChunks, saveMetadata.
final_destructor ==
    /\ mainAt = "final"
    /\ stopKind = "destructor"
    /\ CleanClose

\* The rest of destroy().
final_destroy ==
    /\ mainAt = "final"
    /\ stopKind = "destroy"
    /\ destroy

\* ~Impl or destroy() returns.
shutdown_return ==
    /\ ~running_
    /\ mainAt = "final"
    /\ mainAt' = "done"
    /\ poppers' = poppers \ {Main}
    /\ UNCHANGED <<flusherAt, stopKind, beforeFinal>>
    /\ ShutFrame

\* The process dies while the object is in use...
process_dies ==
    /\ mainAt = "live"
    /\ Crash

\* ... and with it its threads.
threads_die ==
    /\ ~running_
    /\ mainAt = "live"
    /\ mainAt' = "done"
    /\ flusherAt' = "exited"
    /\ poppers' = {}
    /\ stopKind' = "destructor"
    /\ UNCHANGED beforeFinal
    /\ ShutFrame

\* Impl::Impl is entered on the directory an earlier object left; it is
\* taken to stand in its recovery flush until it starts the flusher.
ctor_enter ==
    /\ ~running_
    /\ mainAt = "done"
    /\ destroyed = "no"
    /\ mainAt' = "ctor"
    /\ poppers' = poppers \cup {Main}
    /\ UNCHANGED <<flusherAt, stopKind, beforeFinal>>
    /\ ShutFrame

\* Impl::Impl up to the end of the recovery.
ctor_recover ==
    /\ mainAt = "ctor"
    /\ Reopen

\* Impl::Impl: flushThread_ = std::thread(&Impl::flushLoop, this).
ctor_startThread ==
    /\ running_
    /\ mainAt = "ctor"
    /\ mainAt' = "live"
    /\ flusherAt' = "while"
    /\ poppers' = poppers \ {Main}
    /\ UNCHANGED <<stopKind, beforeFinal>>
    /\ ShutFrame

FlusherStep ==
    \/ flusher_while
    \/ flusher_wake
    \/ flusher_flush
    \/ flusher_return

ShutdownStep ==
    \/ join
    \/ final_destructor
    \/ final_destroy
    \/ shutdown_return

ShutdownNext ==
    \/ FlusherStep
    \/ \E pt \in LifePoints : client_write(pt)
    \/ \E kind \in {"destructor", "destroy"} : stop(kind)
    \/ ShutdownStep
    \/ process_dies
    \/ threads_die
    \/ ctor_enter
    \/ ctor_recover
    \/ ctor_startThread

ShutdownSpec == Init /\ [][ShutdownNext]_vars

\* The life of one object, from the end of its constructor to the end of
\* its shutdown.
OneLifeNext ==
    \/ FlusherStep
    \/ \E pt \in LifePoints : client_write(pt)
    \/ \E kind \in {"destructor", "destroy"} : stop(kind)
    \/ ShutdownStep

\* The scheduler lets the flusher thread and a thread that is shutting the
\* object down run.
ShutdownLiveSpec ==
    /\ Init
    /\ [][OneLifeNext]_vars
    /\ WF_vars(FlusherStep)
    /\ WF_vars(ShutdownStep)

(***************************************************************************)
(* A process that dies inside WriteAheadLog::writeEntryToFile               *)
(* (wal.cpp, waffledb.cpp).                                                *)
(***************************************************************************)
\* The points written in sessions that may be cut short inside an append.
TornPoints ==
    [timestamp : Timestamps, metric : {CPU}, value : {1},
     tags : {NoTags, HostA}]

\* The numbers of bytes of a record that reached wal.log when the size
\* field itself was cut: fewer than sizeof(uint32_t).
TornLengths == 1..3

\* The first n bytes of an entry, n in TornLengths: the low bytes of its
\* size field.
TornHead(entry, n) == <<Cell("entrySize", n, entry[1].v % (256 ^ n))>>

\* wal.log holds a size field that was cut short.
HoldsTorn(file) ==
    \E i \in 1..Len(file) : file[i].f = "entrySize" /\ file[i].n < 4

\* The process dies inside logFile_.write of writeEntryToFile, called by
\* write(pt): the first n bytes of the record are in wal.log and write
\* never returns.  At most one record of a log is cut.
crash_inAppend(pt, n) ==
    LET entry == EncodeEntry(sequenceNumber_, Stamp(pt, 0))
    IN /\ running_
       /\ ~HoldsTorn(walFile)
       /\ MemoryLost
       /\ walFile' = walFile \o TornHead(entry, n)
       /\ endKind' = "crash"
       /\ delSession' = {}
       /\ delRestart' = {}
       /\ reopened' = <<>>
       /\ UNCHANGED <<chunkFiles, metadataFile, nextId, sessionWrites,
                      flushedAny, deletedAny, everVars, sideVars>>

TornNext ==
    \/ \E pt \in TornPoints : write(pt)
    \/ Flush
    \/ Crash
    \/ \E pt \in TornPoints, n \in TornLengths : crash_inAppend(pt, n)
    \/ Reopen

TornSpec == Init /\ [][TornNext]_vars

(***************************************************************************)
(* WriteAheadLog::append and recover, with every point append accepts      *)
(* (wal.cpp).                                                              *)
(***************************************************************************)
\* Points with short and with long metric names, tag maps, keys and
\* values: writeEntryToFile checks no length.
RoundTripPoints ==
    LogPoints \cup {OversizedPoints[check] : check \in DOMAIN OversizedPoints}

RoundTripNext ==
    \/ \E pt \in RoundTripPoints : wal_append(pt)
    \/ wal_recover

RoundTripSpec == Init /\ [][RoundTripNext]_vars

(***************************************************************************)
(* LockFreeQueue of lock_free_structures.h: enqueue and dequeue, one       *)
(* atomic access per step.                                                 *)
(*                                                                         *)
(* A node that delete ran on stays in ms_nodes with deleted = TRUE.  An    *)
(* access to it is undefined: a load returns any pointer, a                 *)
(* compare-exchange succeeds or fails, or the process dies.  Addresses     *)
(* are not reused.                                                         *)
(***************************************************************************)
MsFrame ==
    UNCHANGED <<memVars, diskVars, histVars, everVars, queueVars, logVars,
                codecVars, dirVars, chunkVars, seenVars, lockVars,
                shutVars>>

\* The thread's record after a change of its program counter.
MsGoto(t, pc) == [ms_threads[t] EXCEPT !.pc = pc]

\* What n->next.load() may return.
ReadNext(n) ==
    IF ms_nodes[n].deleted THEN DOMAIN ms_nodes \cup {nullptr}
    ELSE {ms_nodes[n].next}

\* What n->data.load() may return.
ReadData(n) ==
    IF ms_nodes[n].deleted
    THEN {ms_nodes[m].data : m \in DOMAIN ms_nodes} \cup {nullptr}
    ELSE {ms_nodes[n].data}

\* The process dies on the access to node n.
MsFault(n) ==
    /\ n = nullptr \/ ms_nodes[n].deleted
    /\ ms_crashed' = TRUE
    /\ usedDeleted' = (usedDeleted \/ n # nullptr)
    /\ UNCHANGED <<ms_head, ms_tail, ms_nodes, ms_threads>>

\* The access to node n is recorded.
MsTouch(n) == usedDeleted' = (usedDeleted \/ ms_nodes[n].deleted)

\* enqueue, lines 52-54: the node is allocated and filled.
enqueue_new(t) ==
    LET newNode == <<t[2], ms_threads[t].calls + 1>>
    IN /\ ~ms_crashed
       /\ t \in MsEnqueuers
       /\ ms_threads[t].pc = "idle"
       /\ ms_threads[t].calls < MaxPush
       /\ ms_nodes' = [n \in DOMAIN ms_nodes \cup {newNode} |->
                          IF n = newNode
                          THEN [data |-> newNode, next |-> nullptr,
                                deleted |-> FALSE]
                          ELSE ms_nodes[n]]
       /\ ms_threads' = [ms_threads EXCEPT ![t] =
                            [@ EXCEPT !.pc = "tail", !.newNode = newNode]]
       /\ UNCHANGED <<ms_head, ms_tail, usedDeleted, ms_crashed>>
       /\ MsFrame

\* enqueue, line 58: last = tail_.load().
enqueue_tail(t) ==
    /\ ~ms_crashed
    /\ t \in MsEnqueuers
    /\ ms_threads[t].pc = "tail"
    /\ ms_threads' = [ms_threads EXCEPT ![t] =
                         [@ EXCEPT !.pc = "next", !.last = ms_tail]]
    /\ UNCHANGED <<ms_head, ms_tail, ms_nodes, usedDeleted, ms_crashed>>
    /\ MsFrame

\* enqueue, line 59: next = last->next.load().
enqueue_next(t) ==
    LET last == ms_threads[t].last
    IN /\ ~ms_crashed
       /\ t \in MsEnqueuers
       /\ ms_threads[t].pc = "next"
       /\ \/ /\ \E next \in ReadNext(last) :
                    ms_threads' = [ms_threads EXCEPT ![t] =
                                      [@ EXCEPT !.pc = "check",
                                                !.next = next]]
             /\ MsTouch(last)
             /\ UNCHANGED <<ms_head, ms_tail, ms_nodes, ms_crashed>>
          \/ MsFault(last)
       /\ MsFrame

\* enqueue, lines 61-63: last == tail_.load(), next == nullptr.
enqueue_check(t) ==
    LET th == ms_threads[t]
    IN /\ ~ms_crashed
       /\ t \in MsEnqueuers
       /\ th.pc = "check"
       /\ ms_threads' = [ms_threads EXCEPT ![t] =
                            MsGoto(t, IF th.last # ms_tail THEN "tail"
                                      ELSE IF th.next = nullptr THEN "cas"
                                      ELSE "swing")]
       /\ UNCHANGED <<ms_head, ms_tail, ms_nodes, usedDeleted, ms_crashed>>
       /\ MsFrame

\* enqueue, line 65: last->next.compare_exchange_weak(next, newNode), with
\* next == nullptr.  The weak form may fail where the values are equal.
enqueue_cas(t) ==
    LET th == ms_threads[t]
    IN /\ ~ms_crashed
       /\ t \in MsEnqueuers
       /\ th.pc = "cas"
       /\ \/ /\ ms_nodes[th.last].deleted
                    \/ ms_nodes[th.last].next = nullptr
             /\ ms_nodes' = [ms_nodes EXCEPT ![th.last].next = th.newNode]
             /\ ms_threads' = [ms_threads EXCEPT ![t] = MsGoto(t, "settail")]
             /\ MsTouch(th.last)
             /\ UNCHANGED <<ms_head, ms_tail, ms_crashed>>
          \/ /\ ms_threads' = [ms_threads EXCEPT ![t] = MsGoto(t, "tail")]
             /\ MsTouch(th.last)
             /\ UNCHANGED <<ms_head, ms_tail, ms_nodes, ms_crashed>>
          \/ MsFault(th.last)
       /\ MsFrame

\* enqueue, lines 67-68: tail_.compare_exchange_weak(last, newNode), and
\* enqueue returns.
enqueue_settail(t) ==
    LET th == ms_threads[t]
    IN /\ ~ms_crashed
       /\ t \in MsEnqueuers
       /\ th.pc = "settail"
       /\ \/ ms_tail = th.last /\ ms_tail' = th.newNode
          \/ UNCHANGED ms_tail
       /\ ms_threads' = [ms_threads EXCEPT ![t] = MsIdle(th.calls + 1)]
       /\ UNCHANGED <<ms_head, ms_nodes, usedDeleted, ms_crashed>>
       /\ MsFrame

\* enqueue, line 73: tail_.compare_exchange_weak(last, next).
enqueue_swing(t) ==
    LET th == ms_threads[t]
    IN /\ ~ms_crashed
       /\ t \in MsEnqueuers
       /\ th.pc = "swing"
       /\ \/ ms_tail = th.last /\ ms_tail' = th.next
          \/ UNCHANGED ms_tail
       /\ ms_threads' = [ms_threads EXCEPT ![t] = MsGoto(t, "tail")]
       /\ UNCHANGED <<ms_head, ms_nodes, usedDeleted, ms_crashed>>
       /\ MsFrame

\* dequeue, line 83: first = head_.load().
dequeue_head(t) ==
    /\ ~ms_crashed
    /\ t = MsDequeuer
    /\ ms_threads[t].pc = "idle"
    /\ ms_threads' = [ms_threads EXCEPT ![t] =
                         [@ EXCEPT !.pc = "tail", !.first = ms_head]]
    /\ UNCHANGED <<ms_head, ms_tail, ms_nodes, usedDeleted, ms_crashed>>
    /\ MsFrame

\* dequeue, line 84: last = tail_.load().
dequeue_tail(t) ==
    /\ ~ms_crashed
    /\ t = MsDequeuer
    /\ ms_threads[t].pc = "tail"
    /\ ms_threads' = [ms_threads EXCEPT ![t] =
                         [@ EXCEPT !.pc = "next", !.last = ms_tail]]
    /\ UNCHANGED <<ms_head, ms_tail, ms_nodes, usedDeleted, ms_crashed>>
    /\ MsFrame

\* dequeue, line 85: next = first->next.load().
dequeue_next(t) ==
    LET first == ms_threads[t].first
    IN /\ ~ms_crashed
       /\ t = MsDequeuer
       /\ ms_threads[t].pc = "next"
       /\ \/ /\ \E next \in ReadNext(first) :
                    ms_threads' = [ms_threads EXCEPT ![t] =
                                      [@ EXCEPT !.pc = "check",
                                                !.next = next]]
             /\ MsTouch(first)
             /\ UNCHANGED <<ms_head, ms_tail, ms_nodes, ms_crashed>>
          \/ MsFault(first)
       /\ MsFrame

\* dequeue, lines 87-93: first == head_.load(), first == last,
\* next == nullptr; "return false" and a failed first test lead back to
\* the start.
dequeue_check(t) ==
    LET th == ms_threads[t]
    IN /\ ~ms_crashed
       /\ t = MsDequeuer
       /\ th.pc = "check"
       /\ ms_threads' = [ms_threads EXCEPT ![t] =
                            IF th.first # ms_head THEN MsIdle(th.calls)
                            ELSE IF th.first # th.last
                            THEN MsGoto(t, "data")
                            ELSE IF th.next = nullptr
                            THEN MsIdle(th.calls)
                            ELSE MsGoto(t, "swing")]
       /\ UNCHANGED <<ms_head, ms_tail, ms_nodes, usedDeleted, ms_crashed>>
       /\ MsFrame

\* dequeue, line 95: tail_.compare_exchange_weak(last, next).
dequeue_swing(t) ==
    LET th == ms_threads[t]
    IN /\ ~ms_crashed
       /\ t = MsDequeuer
       /\ th.pc = "swing"
       /\ \/ ms_tail = th.last /\ ms_tail' = th.next
          \/ UNCHANGED ms_tail
       /\ ms_threads' = [ms_threads EXCEPT ![t] = MsIdle(th.calls)]
       /\ UNCHANGED <<ms_head, ms_nodes, usedDeleted, ms_crashed>>
       /\ MsFrame

\* dequeue, lines 99-103: data = next->data.load(); a null data leads back
\* to the start.
dequeue_data(t) ==
    LET th == ms_threads[t]
    IN /\ ~ms_crashed
       /\ t = MsDequeuer
       /\ th.pc = "data"
       /\ \/ /\ th.next # nullptr
             /\ \E data \in ReadData(th.next) :
                    ms_threads' = [ms_threads EXCEPT ![t] =
                                      IF data = nullptr
                                      THEN MsIdle(th.calls)
                                      ELSE [@ EXCEPT !.pc = "head_cas",
                                                     !.data = data]]
             /\ MsTouch(th.next)
             /\ UNCHANGED <<ms_head, ms_tail, ms_nodes, ms_crashed>>
          \/ MsFault(th.next)
       /\ MsFrame

\* dequeue, line 105: head_.compare_exchange_weak(first, next).
dequeue_cas(t) ==
    LET th == ms_threads[t]
    IN /\ ~ms_crashed
       /\ t = MsDequeuer
       /\ th.pc = "head_cas"
       /\ \/ /\ ms_head = th.first
             /\ ms_head' = th.next
             /\ ms_threads' = [ms_threads EXCEPT ![t] = MsGoto(t, "delete")]
          \/ /\ UNCHANGED ms_head
             /\ ms_threads' = [ms_threads EXCEPT ![t] = MsIdle(th.calls)]
       /\ UNCHANGED <<ms_tail, ms_nodes, usedDeleted, ms_crashed>>
       /\ MsFrame

\* dequeue, lines 107-110: result = *data; delete data; delete first;
\* return true.
dequeue_delete(t) ==
    LET th == ms_threads[t]
    IN /\ ~ms_crashed
       /\ t = MsDequeuer
       /\ th.pc = "delete"
       /\ ms_nodes' = [ms_nodes EXCEPT ![th.first].deleted = TRUE]
       /\ ms_threads' = [ms_threads EXCEPT ![t] = MsIdle(th.calls)]
       /\ UNCHANGED <<ms_head, ms_tail, usedDeleted, ms_crashed>>
       /\ MsFrame

MsNext ==
    \E t \in MsThreads :
        \/ enqueue_new(t)
        \/ enqueue_tail(t)
        \/ enqueue_next(t)
        \/ enqueue_check(t)
        \/ enqueue_cas(t)
        \/ enqueue_settail(t)
        \/ enqueue_swing(t)
        \/ dequeue_head(t)
        \/ dequeue_tail(t)
        \/ dequeue_next(t)
        \/ dequeue_check(t)
        \/ dequeue_swing(t)
        \/ dequeue_data(t)
        \/ dequeue_cas(t)
        \/ dequeue_delete(t)

MsSpec == Init /\ [][MsNext]_vars

(***************************************************************************)
(* Properties.                                                             *)
(***************************************************************************)
\* query over the full time range, without tag filter.
QueryAll(metric) == query(metric, 0, UINT64_MAX, NoTags)

\* Two results hold the same points, whatever their order.
SameContent(a, b) ==
    /\ Len(a) = Len(b)
    /\ \A x \in Range(a) \cup Range(b) : Occurrences(a, x) = Occurrences(b, x)

ValuesOf(points) == [i \in 1..Len(points) |-> points[i].value]

\* Every (key, value) pair of filter is a pair of the tag map tags.
TagSubset(filter, tags) ==
    {<<k, filter[k]>> : k \in DOMAIN filter}
        \subseteq {<<k, tags[k]>> : k \in DOMAIN tags}

\* The chunks in memory, active and sealed, of all metrics.
ChunksInMemory ==
    {activeChunks_[m] : m \in DOMAIN activeChunks_}
        \cup UNION {Range(metricChunks_[m]) : m \in DOMAIN metricChunks_}

\* C1 (eventual visibility, stated on the moment it promises): once the
\* flusher has drained the ingress queue, every point written in this
\* session to a metric not deleted since is returned by
\* query(p.metric, p.timestamp, p.timestamp, p.tags), whatever the order in
\* which the timestamps arrived.
C1_VisibleOnceFlushed ==
    (running_ /\ writeBuffer_ = <<>>) =>
        \A p \in sessionWrites :
            p \in Range(query(p.metric, p.timestamp, p.timestamp, p.tags))

\* C2 (read-your-writes): as soon as write or writeBatch has returned, a
\* query of the point's metric over a range holding its timestamp returns
\* the point.
C2_ReadYourWrites ==
    running_ =>
        \A p \in sessionWrites : \A r \in Ranges :
            (r[1] <= p.timestamp /\ p.timestamp <= r[2]) =>
                p \in Range(query(p.metric, r[1], r[2], NoTags))

\* C3 (crash recovery): after a session of writes only that died before
\* any flush cycle drained a point, the reopened database lists the metric
\* of every written point and returns every written point exactly once
\* over the full time range.
C3_CrashRecovery ==
    (/\ reopened # <<>>
     /\ reopened[1].end = "crash"
     /\ ~reopened[1].flushed
     /\ ~reopened[1].deleted) =>
        \A p \in reopened[1].writes :
            /\ p.metric \in getMetrics
            /\ Occurrences(QueryAll(p.metric), p) = 1

C5_DeletedStaysEmpty ==
    running_ =>
        \A m \in delSession :
            /\ m \notin getMetrics
            /\ \A r \in Ranges : \A T \in FilterTagMaps :
                   query(m, r[1], r[2], T) = <<>>
            /\ QueryAll(m) = <<>>

\* C6 (delete across a restart): a metric deleted before a clean close and
\* not written since is, after the reopen, not listed by getMetrics and
\* every query of it is empty.
C6_DeletedAfterRestart ==
    running_ =>
        \A m \in delRestart :
            /\ m \notin getMetrics
            /\ QueryAll(m) = <<>>

\* C7 (range scan exactness): for every chunk in memory and every range,
\* queryTimeRange returns exactly the indices, ascending, of the rows whose
\* timestamp lies in the range.
C7_RangeScanExact ==
    \A c \in ChunksInMemory : \A r \in Ranges :
        queryTimeRange(c, r[1], r[2])
            = SelectSeq([k \in 1..c.count_ |-> k - 1],
                        LAMBDA i : /\ r[1] <= c.timestamps_[i + 1]
                                   /\ c.timestamps_[i + 1] <= r[2])

\* C8 (tag filter): for every range and tag map T, query with T returns
\* exactly the points of the unfiltered query whose tag map contains every
\* pair of T.
C8_TagFilter ==
    \A r \in Ranges : \A T \in FilterTagMaps :
        SameContent(query(CPU, r[1], r[2], T),
                    SelectSeq(query(CPU, r[1], r[2], NoTags),
                              LAMBDA p : TagSubset(T, p.tags)))

\* Some filter keeps a part of a result and drops the rest.
C8_Witness ==
    \E r \in Ranges : \E T \in FilterTagMaps :
        /\ T # NoTags
        /\ query(CPU, r[1], r[2], T) # <<>>
        /\ Len(query(CPU, r[1], r[2], T)) < Len(query(CPU, r[1], r[2], NoTags))
        /\ CPU \in DOMAIN metricChunks_

\* C9 (aggregation consistency): in every state and for every range, sum
\* equals the sum of the values of the points query returns.
C9_SumMatchesQuery ==
    \A r \in Ranges :
        sum(CPU, r[1], r[2], NoTags)
            = SumSeq(ValuesOf(query(CPU, r[1], r[2], NoTags)))

\* A sum over points of which some are in the active chunk and some in a
\* sealed chunk, on a range that leaves points out.
C9_Witness ==
    /\ CPU \in DOMAIN metricChunks_
    /\ CPU \in DOMAIN activeChunks_
    /\ \E r \in Ranges :
           /\ ChunkSum(activeChunks_[CPU], r[1], r[2]) > 0
           /\ ChunkSum(metricChunks_[CPU][1], r[1], r[2]) > 0
           /\ Len(query(CPU, r[1], r[2], NoTags)) < Len(QueryAll(CPU))

\* C10 (average): in every state and for every range, avg equals the sum of
\* the values of the points query returns divided by their number, and 0
\* when query returns nothing.
C10_AvgMatchesQuery ==
    \A r \in Ranges :
        LET result == query(CPU, r[1], r[2], NoTags)
        IN avg(CPU, r[1], r[2], NoTags)
               = IF result = <<>> THEN Zero
                 ELSE Quotient(SumSeq(ValuesOf(result)), Len(result))

\* An average over a sealed and an active chunk that contribute different
\* numbers of points with different values, and an average over nothing.
C10_Witness ==
    /\ CPU \in DOMAIN metricChunks_
    /\ CPU \in DOMAIN activeChunks_
    /\ \E r \in Ranges :
           /\ Len(queryTimeRange(activeChunks_[CPU], r[1], r[2])) = 1
           /\ Len(queryTimeRange(metricChunks_[CPU][1], r[1], r[2])) = 2
           /\ avg(CPU, r[1], r[2], NoTags)
                  # avg_ofChunkAverages(CPU, r[1], r[2], NoTags)
    /\ \E r \in Ranges :
           /\ query(CPU, r[1], r[2], NoTags) = <<>>
           /\ avg(CPU, r[1], r[2], NoTags) = Zero

\* The smallest and the largest element of a non-empty sequence of values.
Smallest(values) ==
    CHOOSE v \in Range(values) : \A w \in Range(values) : v <= w
Largest(values) ==
    CHOOSE v \in Range(values) : \A w \in Range(values) : v >= w

\* C11 (min and max): for every range on which query returns points, min
\* is the smallest and max the largest value of the returned points,
\* however the points are spread over the active and the sealed chunks.
C11_MinMaxMatchQuery ==
    \A r \in Ranges :
        LET result == query(CPU, r[1], r[2], NoTags)
        IN result # <<>> =>
               /\ min(CPU, r[1], r[2], NoTags) = Smallest(ValuesOf(result))
               /\ max(CPU, r[1], r[2], NoTags) = Largest(ValuesOf(result))

\* C12 (aggregates honour the tag filter): for every range and tag map T,
\* sum and avg with T are the sum and the mean of the values of the points
\* query returns with T, and min and max with T their smallest and largest
\* value when there are any.
C12_AggregatesHonourTags ==
    \A r \in Ranges : \A T \in FilterTagMaps :
        LET result == query(CPU, r[1], r[2], T)
        IN /\ sum(CPU, r[1], r[2], T) = SumSeq(ValuesOf(result))
           /\ avg(CPU, r[1], r[2], T)
                  = IF result = <<>> THEN Zero
                    ELSE Quotient(SumSeq(ValuesOf(result)), Len(result))
           /\ result # <<>> =>
                  /\ min(CPU, r[1], r[2], T) = Smallest(ValuesOf(result))
                  /\ max(CPU, r[1], r[2], T) = Largest(ValuesOf(result))

\* C13 (result order): every result of query, without and with a tag
\* filter, is in ascending timestamp order, whatever the order of the
\* writes and the split of the points between the active chunk and the
\* sealed chunks.
C13_AscendingTimestamps ==
    \A r \in Ranges : \A T \in {NoTags, HostA} :
        LET result == query(CPU, r[1], r[2], T)
        IN \A i, j \in 1..Len(result) :
               i < j => result[i].timestamp <= result[j].timestamp

\* The rows of a sealed and of an active chunk, as query collects them, are
\* not in timestamp order.
C13_Witness ==
    /\ CPU \in DOMAIN metricChunks_
    /\ CPU \in DOMAIN activeChunks_
    /\ activeChunks_[CPU].count_ > 0
    /\ LET rows == QueryUnsorted(activeChunks_, metricChunks_, CPU,
                                 0, UINT64_MAX, NoTags)
       IN /\ Len(rows) = Len(QueryAll(CPU))
          /\ \E i, j \in 1..Len(rows) :
                 i < j /\ rows[i].timestamp > rows[j].timestamp

\* C14 (chunk round trip): every chunk built by append is accepted by
\* deserialize in its serialized form and comes back equal in count,
\* minimum and maximum timestamp, columns and tag maps.
C14_ChunkRoundTrip ==
    \A c \in ChunksInMemory :
        /\ DeserializeOk(serialize(c))
        /\ deserialize(serialize(c)) = c

\* C15 (strict write path): every point whose write returned normally, and
\* every point in the ingress queue, has its record in wal.log (stated for
\* sessions that start with an empty log or a log just replayed).
C15_WalFailureFailsWrite ==
    running_ =>
        \A p \in sessionWrites \cup Range(writeBuffer_) :
            p \in Range(recover(walFile))

\* C16 (the flusher survives): no flush cycle ends the flusher, and with it
\* the process, because a chunk file could not be saved.
C16_FlusherSurvivesSaveFailure ==
    ~(~running_ /\ endKind = "terminated")

\* C17 (queue order): the items of one producer are popped in the order in
\* which that producer pushed them.
C17_ProducerOrder ==
    \A i, j \in 1..Len(popped) :
        (i < j /\ popped[i][1] = popped[j][1]) => popped[i][2] < popped[j][2]

\* Two items of one producer were popped with an item of another producer
\* between them.
C17_Witness ==
    \E i, j, k \in 1..Len(popped) :
        /\ i < j /\ j < k
        /\ popped[i][1] = popped[k][1]
        /\ popped[j][1] # popped[i][1]

\* The items whose push has returned or has passed the exchange.
Exchanged ==
    UNION {{<<p, n>> : n \in 1..(producers[p].sent
                                   + IF producers[p].pc = "link" THEN 1
                                     ELSE 0)} : p \in Producers}

\* Every producer has returned from its last push.
ProducersFinished ==
    \A p \in Producers :
        producers[p].pc = "idle" /\ producers[p].sent = MaxPush

\* C18 (queue delivery): pop returns only pushed items and none twice;
\* and once all producers have finished, pop returns false only when
\* every pushed item has been returned.
C18_ExactlyOnce ==
    /\ Range(popped) \subseteq Exchanged
    /\ \A i, j \in 1..Len(popped) : i # j => popped[i] # popped[j]
    /\ (ProducersFinished /\ ~pop(nodes, head_).ok) =>
           Range(popped) = Producers \X (1..MaxPush)

\* All producers have finished, every item was popped and pop now returns
\* false; the first two items popped came from different producers.
C18_Witness ==
    /\ ProducersFinished
    /\ ~pop(nodes, head_).ok
    /\ Len(popped) = MaxProducers * MaxPush
    /\ popped[1][1] # popped[2][1]

\* C19 (the WAL clear is safe): when the constructor finds chunks to load,
\* and so clears the WAL without reading it, every acknowledged point with
\* a record in the WAL is in a loaded chunk.
C19_WalClearLosesNothing ==
    [][(/\ ~running_
        /\ running_'
        /\ hasExistingData(EmptyMap,
                            loadMetadata(metadataFile, chunkFiles).sealed))
       => \A p \in acked \cap Range(recover(walFile)) :
              \E c \in ChunksInMemory' : p.id \in Range(c.ids)]_vars

\* C20 (repeated crashes): over sessions that were all ended by the death
\* of the process, every acknowledged point is returned by query after
\* each reopen.
C20_SurvivesRepeatedCrashes ==
    (running_ /\ crashOnly /\ reopened # <<>>) =>
        \A p \in acked : p \in Range(QueryAll(p.metric))

\* The sealed-chunk count that metadata.txt records for a metric: the
\* number on its line of the chunks: section, 0 when it has no line or the
\* file does not exist.
ManifestCount(meta, metric) ==
    IF meta = NoFile THEN 0
    ELSE IF metric \in DOMAIN meta[1].chunks THEN meta[1].chunks[metric]
    ELSE 0

\* The ids of the files <metric>_<id>.chunk in the directory.
listChunks(files, metric) ==
    {key[2] : key \in {k \in DOMAIN files : k[1] = metric}}

\* C21 (manifest and directory agree): after a clean shutdown, for every
\* metric the sealed-chunk count written to metadata.txt equals the number
\* of chunk files <metric>_<id>.chunk in the directory.
C21_ManifestMatchesFiles ==
    (~running_ /\ endKind = "clean") =>
        \A metric \in {CPU, CPU_USER} :
            ManifestCount(metadataFile, metric)
                = Cardinality(listChunks(chunkFiles, metric))

\* The sequence numbers of the entries of wal.log, in file order.
SequencesOf(file) ==
    LET cells == SelectSeq(file, LAMBDA c : c.f = "sequence")
    IN [i \in 1..Len(cells) |-> cells[i].v]

\* C22 (WAL sequence numbers): within wal.log the sequence numbers of the
\* records are strictly increasing in file order, across appends, recover
\* and clear.
C22_SequenceIncreasing ==
    LET s == SequencesOf(walFile)
    IN \A i, j \in 1..Len(s) : i < j => s[i] < s[j]

\* C23 (recovery stops at the first bad entry): recover on a log of k
\* entries parseEntry accepts followed by a torn or invalid entry returns
\* exactly the k points of those entries, in log order, and nothing of what
\* follows; the exception of parseEntry does not leave recover.
C23_RecoverValidPrefix ==
    (recovered # <<>> /\ logDamaged # "no") => recovered[1] = logValid

\* A log of one entry, an entry with a tag value longer than parseEntry
\* accepts and one more entry was read, and the one point was returned.
C23_Witness ==
    /\ recovered = <<logValid>>
    /\ logDamaged = "valueLen"
    /\ Len(logValid) = 1
    /\ Len(SequencesOf(walFile)) = 3

\* C24 (delta codec round trip): decompressTimestamps of
\* compressTimestamps(X) is X, for every array X of timestamps, the empty
\* one included.
C24_TimestampRoundTrip ==
    (/\ codecInput # <<>>
     /\ codecInput.kind = "timestamps"
     /\ ~codecInput.malformed)
    => /\ codecData # Trapped
       /\ codecOutput # <<>> =>
              /\ ~codecOutput[1].crashed
              /\ codecOutput[1].result = codecInput.array

\* C25 (run-length codec round trip): decompressDoubles of
\* compressDoubles(V) is V, element by element, for every array V of
\* doubles, the empty one and runs longer than UINT16_MAX included.
C25_ValueRoundTrip ==
    (/\ codecInput # <<>>
     /\ codecInput.kind = "doubles"
     /\ ~codecInput.malformed
     /\ codecOutput # <<>>)
    => /\ ~codecOutput[1].crashed
       /\ codecOutput[1].result = codecInput.array

\* C26 (malformed input is reported): a decoder handed a vector whose
\* declared count and payload disagree, or whose width byte is not 1, 2, 4
\* or 8, fails with CorruptData instead of producing a result.
C26_MalformedReported ==
    (/\ codecInput # <<>>
     /\ codecInput.malformed
     /\ codecOutput # <<>>)
    => codecOutput[1].error = "CorruptData"

ChunkInvariant(c) ==
    /\ c.count_ = Len(c.timestamps_)
    /\ c.count_ = Len(c.values_)
    /\ c.count_ = Len(c.tags_)
    /\ c.count_ <= VALUES_PER_CHUNK
    /\ c.count_ > 0 =>
           /\ \A i \in 1..c.count_ :
                  /\ c.minTimestamp_ <= c.timestamps_[i]
                  /\ c.timestamps_[i] <= c.maxTimestamp_
           /\ \E i \in 1..c.count_ : c.timestamps_[i] = c.minTimestamp_
           /\ \E i \in 1..c.count_ : c.timestamps_[i] = c.maxTimestamp_

\* Every row of the chunk before is the row at the same index afterwards.
RowsKept(before, after) ==
    /\ IsPrefix(before.timestamps_, after.timestamps_)
    /\ IsPrefix(before.values_, after.values_)
    /\ IsPrefix(before.tags_, after.tags_)

\* C28: after any sequence of append calls a chunk satisfies the chunk
\* invariant (the chunk appended to directly, and every chunk the flusher
\* filled), and an append call removes or overwrites no row.
C28_ChunkInvariant ==
    /\ \A c \in {oneChunk} \cup ChunksInMemory : ChunkInvariant(c)
    /\ chunkCall # "none" => RowsKept(chunkBefore, oneChunk)

\* A full chunk whose last append returned and lowered the minimum.
C28_Witness ==
    /\ chunkCall = "returned"
    /\ oneChunk.count_ = VALUES_PER_CHUNK
    /\ oneChunk.minTimestamp_ < oneChunk.maxTimestamp_
    /\ oneChunk.timestamps_[oneChunk.count_] = oneChunk.minTimestamp_
    /\ chunkBefore.minTimestamp_ > oneChunk.minTimestamp_

\* C29: an append call on a full chunk throws and leaves the chunk as it
\* was, and no flush cycle meets that throw: in every state the cycle that
\* drains the ingress queue as it stands calls append on no full chunk,
\* because it seals a full active chunk and installs a fresh one first.
C29_ChunkFullNotSurfaced ==
    /\ (chunkCall # "none" /\ chunkBefore.count_ = VALUES_PER_CHUNK) =>
           /\ chunkCall = "threw"
           /\ oneChunk = chunkBefore
    /\ ~flushWriteBuffer(activeChunks_, metricChunks_, chunkFiles,
                         writeBuffer_).threw

\* An append call on the full chunk threw, and the flusher met a full active
\* chunk, sealed it and appended the next point to a fresh one.
C29_Witness ==
    /\ chunkCall = "threw"
    /\ \E m \in DOMAIN metricChunks_ :
           /\ metricChunks_[m] # <<>>
           /\ metricChunks_[m][1].count_ = VALUES_PER_CHUNK
           /\ m \in DOMAIN activeChunks_
           /\ activeChunks_[m].count_ = 1

\* C30: in every state of a live process, for every metric, the sealed chunk
\* at index i of the in-memory sealed list (counting from 0) is the chunk
\* stored in file <metric>_<i>.chunk, also after a reopen in which
\* loadMetadata skipped a chunk file.
C30_DenseChunkIds ==
    running_ =>
        \A m \in DOMAIN metricChunks_ :
            \A i \in 1..Len(metricChunks_[m]) :
                /\ <<m, i - 1>> \in DOMAIN chunkFiles
                /\ chunkFiles[<<m, i - 1>>] = serialize(metricChunks_[m][i])

\* C31: once a query has returned a point p, every query whose range holds
\* p.timestamp and whose tag filter p.tags satisfies returns p exactly once,
\* whatever the flusher has done in between (appends to the chunk holding p,
\* a seal of that chunk).
C31_MonotonicVisibility ==
    \A p \in returned : \A r \in Ranges : \A T \in VisibleFilters :
        (r[1] <= p.timestamp /\ p.timestamp <= r[2] /\ TagsMatch(p.tags, T))
            => Occurrences(query(p.metric, r[1], r[2], T), p) = 1

\* Thread t stands before a lock step on a mutex that a thread holds.
WaitsFor(t) ==
    IF at[t] # NotInCall /\ StepOf(t).do = "lock"
           /\ holder[StepOf(t).mutex] # NoThread
    THEN {StepOf(t).mutex}
    ELSE {}

\* C32: a thread inside write or writeBatch never waits for a mutex other
\* than the WAL mutex: no holder of metricsMutex_ or chunksMutex_ blocks it.
C32_WriterOnlyWalMutex ==
    \A t \in Clients :
        at[t].op \in {"write", "writeBatch"} =>
            WaitsFor(t) \subseteq {"writeMutex_"}

\* The threads of W all wait, each for a mutex held by a thread of W.
WaitForEachOther(W) ==
    \A t \in W :
        /\ WaitsFor(t) # {}
        /\ \A m \in WaitsFor(t) : holder[m] \in W

\* C34: in no reachable state does a set of threads wait for each other's
\* locks.
C34_DeadlockFree ==
    \A W \in SUBSET Threads : W # {} => ~WaitForEachOther(W)

\* Both clients wait for mutexes held by the flusher, which holds
\* chunksMutex_ and writeMutex_ at once and can go on.
C34_Witness ==
    /\ holder["chunksMutex_"] = Flusher
    /\ holder["writeMutex_"] = Flusher
    /\ \A t \in Clients : WaitsFor(t) # {}
    /\ \E t \in Clients : WaitsFor(t) = {"writeMutex_"}
    /\ \E t \in Clients : WaitsFor(t) = {"chunksMutex_"}

\* C33: at no time are two threads inside the drain of the ingress queue:
\* the recovery flush of the constructor, the cycles of the flusher and the
\* final flush of the destructor or destroy() never overlap.
C33_SingleConsumer == Cardinality(poppers) <= 1

\* The owner stands in the final flush with points to drain, after the
\* flusher, which had drained points in this session, has exited.
C33_Witness ==
    /\ poppers = {Main}
    /\ mainAt = "final"
    /\ flusherAt = "exited"
    /\ writeBuffer_ # <<>>
    /\ flushedAny

\* What the shutdown has left when it is over.  After the destructor: no
\* active chunk, and every chunk that was active with rows after the final
\* flush is in the file whose id is the length of its metric's sealed list,
\* which metadata.txt counts.  After destroy(): no active chunk (the files
\* it saved went with the directory).
ShutdownPost ==
    LET flushed == flushWriteBuffer(beforeFinal.active, beforeFinal.sealed,
                                    beforeFinal.files, beforeFinal.queue)
        idOf(m) == IF m \in DOMAIN flushed.sealed
                   THEN Len(flushed.sealed[m]) ELSE 0
    IN /\ activeChunks_ = EmptyMap
       /\ stopKind = "destroy" => destroyed = "destroyed"
       /\ stopKind = "destructor" =>
              /\ endKind = "clean"
              /\ \A m \in DOMAIN flushed.active :
                     flushed.active[m].count_ > 0 =>
                         /\ <<m, idOf(m)>> \in DOMAIN chunkFiles
                         /\ chunkFiles[<<m, idOf(m)>>]
                                = serialize(flushed.active[m])
                         /\ metadataFile # NoFile
                         /\ m \in DOMAIN metadataFile[1].chunks
                         /\ metadataFile[1].chunks[m] = idOf(m) + 1

FilesOfOthers(files, metric) ==
    [key \in {k \in DOMAIN files : k[1] # metric} |-> files[key]]

\* C36 (deleteMetric touches one metric): deleteMetric(m) leaves the
\* on-disk chunk files of every other metric as they were, also those of a
\* metric whose name starts with m followed by '_'.
C36_DeleteLeavesOthers ==
    [][\A metric \in {CPU, CPU_USER} :
           deleteMetric(metric) =>
               FilesOfOthers(chunkFiles', metric)
                   = FilesOfOthers(chunkFiles, metric)]_vars

\* wal.log begins with a record that was cut short: every record behind it
\* was appended by a session opened on a log that began with it.
TornFirst(file) == file # <<>> /\ file[1].n < 4

\* C37 (a torn record does not poison the log): when the process has died
\* and wal.log begins with a torn record, the writes acknowledged in the
\* session that died, which was opened on that log, are returned by
\* WriteAheadLog::recover.
C37_TornRecordHarmless ==
    (~running_ /\ endKind = "crash" /\ TornFirst(walFile)) =>
        sessionWrites \subseteq Range(recover(walFile))

\* C38 (WAL round trip): recover on a log built by append alone returns
\* exactly the appended points, in append order, with equal timestamp,
\* value, metric and tags, whatever the lengths of the metric name, of the
\* tag map and of the tag keys and values.
C38_WalRoundTrip ==
    (recovered # <<>> /\ logDamaged = "no") => recovered[1] = logValid

\* The items whose push call has returned.
PushReturned ==
    {item \in Producers \X (1..MaxPush) :
        item[2] <= producers[item[1]].sent}

\* C39 (pop returns false only when the queue is empty): where a pop that
\* starts now returns false, every item whose push has returned has been
\* popped.
C39_PopFalseOnlyWhenEmpty ==
    ~pop(nodes, head_).ok => PushReturned \subseteq Range(popped)

\* C40 (memory safety of the Michael-Scott queue): no thread reads or
\* writes a node (last->next, first->next, next->data) after dequeue has
\* deleted that node.
C40_NoUseAfterDelete == ~usedDeleted

====
